---- MODULE Spec2Model ----
(***************************************************************************)
(* A model of the analytics core of senryaku: the velocity and staleness   *)
(* primitives and the campaign health classifier (services/health.py) and  *)
(* the urgency score and the briefing planner (services/briefing.py), the  *)
(* drift report and its trend (services/drift.py) and the weekly review    *)
(* and its markdown rendering (services/review.py), over the store of      *)
(* models.py.  Floats are computed as IEEE-754 binary64 values.            *)
(*                                                                         *)
(* Time is counted in ticks, TicksPerDay ticks to the day, so that a       *)
(* timestamp can lie strictly between two whole days.  The store keeps the *)
(* columns the services read.  Rows come back from an unordered SELECT in  *)
(* primary-key order (the order of insertion).                             *)
(***************************************************************************)
EXTENDS Integers, Sequences, FiniteSets, TLC

VARIABLES
    campaigns,   \* Campaign table:  id -> [status, priority_rank, weekly_block_target]
    missions,    \* Mission table:   id -> [campaign_id]
    sorties,     \* Sortie table:    id -> [mission_id, cognitive_load, estimated_blocks,
                 \*                         status, sort_order, completed_at]
    aars,        \* AAR table: a set of [id, sortie_id, actual_blocks, created_at]
    checkins,    \* DailyCheckIn table: a set of [date, energy_level]
    now,         \* the wall clock read by datetime.utcnow()
    briefing,    \* the last generate_briefing call: its arguments and the list returned
    obs,         \* the last call of a health primitive: function, campaign, value
    urg,         \* the last two compute_urgency_score calls, oldest first
    calls,       \* the calls of the report functions so far, oldest first:
                 \* [fn, arg, result], and in SpecCore also the clock at the
                 \* call and whether it raised; in the specifications of the
                 \* API, the requests answered so far
    inflight     \* the API requests being handled: session -> the step the
                 \* handler is at and what it has read

vars ==
    <<campaigns, missions, sorties, aars, checkins, now, briefing, obs, urg, calls, inflight>>

(***************************************************************************)
(* Bounds of the model.                                                    *)
(***************************************************************************)
TicksPerDay == 2
MaxBlocks == 4
MaxEst == 2
MaxActual == 2
MaxRank == 4

CampaignIds == {1, 2}
MissionIds == {1, 2}
SortieIds == {1, 2, 3}

(***************************************************************************)
(* models.py                                                               *)
(***************************************************************************)
CampaignStatus == {"active", "paused", "completed", "archived"}
SortieStatus == {"queued", "active", "completed", "abandoned"}
CognitiveLoad == {"deep", "medium", "light"}
EnergyLevel == {"green", "yellow", "red"}
NULL == -1

Max(S) == CHOOSE x \in S : \A y \in S : y <= x
Min2(a, b) == IF a <= b THEN a ELSE b
Max2(a, b) == IF a >= b THEN a ELSE b

RECURSIVE SetToSeq(_)
SetToSeq(S) ==
    IF S = {} THEN <<>>
    ELSE LET m == CHOOSE x \in S : \A y \in S : x <= y
         IN <<m>> \o SetToSeq(S \ {m})

RECURSIVE SumActual(_)
SumActual(rows) ==
    IF rows = {} THEN 0
    ELSE LET a == CHOOSE x \in rows : TRUE
         IN a.actual_blocks + SumActual(rows \ {a})

\* The join Sortie -> Mission -> Campaign.
CampaignOf(s) == missions[sorties[s].mission_id].campaign_id

(***************************************************************************)
(* services/health.py                                                      *)
(***************************************************************************)
STALENESS_SENTINEL == 999
WINDOW_DAYS == 7

timedelta_days_Rounded(delta) == (2 * delta + TicksPerDay) \div (2 * TicksPerDay)

\* timedelta.days: the whole days of a time difference, rounded down.
timedelta_days(delta) == delta \div TicksPerDay

\* The WHERE clause of compute_staleness.
StalenessRow(s, campaign_id) ==
    /\ CampaignOf(s) = campaign_id
    /\ sorties[s].status = "completed"
    /\ sorties[s].completed_at # NULL

compute_staleness(campaign_id) ==
    LET stamps == {sorties[s].completed_at :
                      s \in {x \in DOMAIN sorties : StalenessRow(x, campaign_id)}}
    IN IF stamps = {} THEN STALENESS_SENTINEL
       ELSE timedelta_days(now - Max(stamps))

VelocityRow_AfterCutoff(a, campaign_id, cutoff) ==
    /\ CampaignOf(a.sortie_id) = campaign_id
    /\ a.created_at > cutoff

\* The WHERE clause of compute_velocity: the campaign's AARs from the cutoff on.
VelocityRow(a, campaign_id, cutoff) ==
    /\ CampaignOf(a.sortie_id) = campaign_id
    /\ a.created_at >= cutoff

compute_velocity(campaign_id) ==
    LET cutoff == now - WINDOW_DAYS * TicksPerDay
    IN SumActual({a \in aars : VelocityRow(a, campaign_id, cutoff)})

\* min(velocity / target, 1.0) >= p / q, for a threshold p / q <= 1.
AdherenceAtLeast(velocity, target, p, q) ==
    IF target > 0 THEN q * velocity >= p * target
    ELSE q * velocity <= p * target

StalenessAtMost_Strict(staleness, days) == staleness < days

StalenessAtMost(staleness, days) == staleness <= days

compute_campaign_health(campaign_id) ==
    LET target == campaigns[campaign_id].weekly_block_target
        staleness == compute_staleness(campaign_id)
        velocity == compute_velocity(campaign_id)
    IN IF target = 0 THEN "green"
       ELSE IF AdherenceAtLeast(velocity, target, 4, 5) /\ StalenessAtMost(staleness, 3)
            THEN "green"
       ELSE IF AdherenceAtLeast(velocity, target, 2, 5) \/ StalenessAtMost(staleness, 7)
            THEN "yellow"
       ELSE "red"

(***************************************************************************)
(* services/briefing.py                                                    *)
(***************************************************************************)
ENERGY_ALLOWED_LOADS ==
    [green |-> {"deep", "medium", "light"},
     yellow |-> {"medium", "light"},
     red |-> {"light"}]

\* priority_weight * num_campaigns.
PriorityWeightNum(priority_rank, num_campaigns) == num_campaigns - priority_rank + 1

Deficit(target, blocks_this_week) == Max2(0, target - blocks_this_week)

\* deficit * priority_weight + staleness * 0.5, as the integer
\* 2 * num_campaigns * urgency: scores of one call of generate_briefing share
\* num_campaigns, so they compare as the urgencies do.
UrgencyFormula(deficit, priority_rank, staleness, num_campaigns) ==
    2 * deficit * PriorityWeightNum(priority_rank, num_campaigns)
        + staleness * num_campaigns

compute_urgency_score(campaign_id, num_campaigns) ==
    UrgencyFormula(
        Deficit(campaigns[campaign_id].weekly_block_target, compute_velocity(campaign_id)),
        campaigns[campaign_id].priority_rank,
        compute_staleness(campaign_id),
        num_campaigns)

ActiveCampaigns == {c \in DOMAIN campaigns : campaigns[c].status = "active"}

\* list.sort: a stable sort of seq by the strict order before, given as the set
\* of pairs <<a, b>> of elements of seq whose keys compare key(a) < key(b).
StableSort(seq, before) ==
    LET n == Len(seq)
        pos(i) == 1 + Cardinality({j \in 1..n :
                        \/ <<seq[j], seq[i]>> \in before
                        \/ (<<seq[i], seq[j]>> \notin before /\ j < i)})
    IN [p \in 1..n |-> seq[CHOOSE i \in 1..n : pos(i) = p]]

\* select(Sortie).where(mission_id, status == queued).order_by(sort_order)
QueuedRow(s, mission_id) ==
    /\ sorties[s].mission_id = mission_id
    /\ sorties[s].status = "queued"

QueuedSorties(mission_id) ==
    StableSort(SetToSeq({s \in DOMAIN sorties : QueuedRow(s, mission_id)}),
               {ab \in (DOMAIN sorties) \X (DOMAIN sorties) :
                    sorties[ab[1]].sort_order < sorties[ab[2]].sort_order})

LoadAdmitted_Any(energy, load) == load \in CognitiveLoad

LoadAdmitted(energy, load) == load \in ENERGY_ALLOWED_LOADS[energy]

RECURSIVE CollectMissions(_, _)
CollectMissions(ms, energy) ==
    IF ms = <<>> THEN <<>>
    ELSE SelectSeq(QueuedSorties(Head(ms)),
                   LAMBDA s : LoadAdmitted(energy, sorties[s].cognitive_load))
         \o CollectMissions(Tail(ms), energy)

RECURSIVE CollectCampaigns(_, _)
CollectCampaigns(cs, energy) ==
    IF cs = <<>> THEN <<>>
    ELSE CollectMissions(
             SetToSeq({m \in DOMAIN missions : missions[m].campaign_id = Head(cs)}),
             energy)
         \o CollectCampaigns(Tail(cs), energy)

\* sorties_with_context before the sort: the sortie ids, in collection order.
sorties_with_context(energy) == CollectCampaigns(SetToSeq(ActiveCampaigns), energy)

KeyBefore_Ascending(urgency_a, sort_order_a, urgency_b, sort_order_b) ==
    \/ urgency_a < urgency_b
    \/ (urgency_a = urgency_b /\ sort_order_a < sort_order_b)

\* The sort key (-urgency, sort_order): whether key a sorts strictly before key b.
KeyBefore(urgency_a, sort_order_a, urgency_b, sort_order_b) ==
    \/ urgency_a > urgency_b
    \/ (urgency_a = urgency_b /\ sort_order_a < sort_order_b)

SortedCandidates(energy) ==
    LET n == Cardinality(ActiveCampaigns)
        campaign_urgency == [c \in ActiveCampaigns |-> compute_urgency_score(c, n)]
        candidates == sorties_with_context(energy)
        ids == {candidates[i] : i \in 1..Len(candidates)}
    IN StableSort(candidates,
                  {ab \in ids \X ids :
                       KeyBefore(campaign_urgency[CampaignOf(ab[1])],
                                 sorties[ab[1]].sort_order,
                                 campaign_urgency[CampaignOf(ab[2])],
                                 sorties[ab[2]].sort_order)})

\* max(1, int(available_blocks * 0.6))
max_blocks_per_campaign(available_blocks) == Max2(1, (available_blocks * 6) \div 10)

CapExceeded_Never(num_campaigns, current_campaign_blocks, estimated_blocks, cap) ==
    FALSE

CapExceeded_AnyCount(num_campaigns, current_campaign_blocks, estimated_blocks, cap) ==
    current_campaign_blocks + estimated_blocks > cap

CapExceeded(num_campaigns, current_campaign_blocks, estimated_blocks, cap) ==
    num_campaigns > 1 /\ current_campaign_blocks + estimated_blocks > cap

BudgetExceeded_Never(blocks_used, estimated_blocks, available_blocks) == FALSE

BudgetExceeded(blocks_used, estimated_blocks, available_blocks) ==
    blocks_used + estimated_blocks > available_blocks

\* The greedy loop with a sortie that does not fit ending the scan.
RECURSIVE GreedyFill_BreakOnSkip(_, _, _, _, _, _)
GreedyFill_BreakOnSkip(items, available_blocks, num_campaigns, result, blocks_used, campaign_blocks) ==
    IF items = <<>> THEN result
    ELSE IF blocks_used >= available_blocks THEN result
    ELSE LET sortie == Head(items)
             campaign == CampaignOf(sortie)
             est == sorties[sortie].estimated_blocks
             current_campaign_blocks == campaign_blocks[campaign]
         IN IF \/ CapExceeded(num_campaigns, current_campaign_blocks, est,
                              max_blocks_per_campaign(available_blocks))
               \/ BudgetExceeded(blocks_used, est, available_blocks)
            THEN result
            ELSE GreedyFill_BreakOnSkip(
                     Tail(items), available_blocks, num_campaigns,
                     Append(result, sortie), blocks_used + est,
                     [campaign_blocks EXCEPT ![campaign] = current_campaign_blocks + est])

\* The greedy loop: break once the budget is used up, continue past a sortie
\* that breaks the cap or the budget, append otherwise.
RECURSIVE GreedyFill(_, _, _, _, _, _)
GreedyFill(items, available_blocks, num_campaigns, result, blocks_used, campaign_blocks) ==
    IF items = <<>> THEN result
    ELSE IF blocks_used >= available_blocks THEN result
    ELSE LET sortie == Head(items)
             campaign == CampaignOf(sortie)
             est == sorties[sortie].estimated_blocks
             current_campaign_blocks == campaign_blocks[campaign]
         IN IF CapExceeded(num_campaigns, current_campaign_blocks, est,
                           max_blocks_per_campaign(available_blocks))
            THEN GreedyFill(Tail(items), available_blocks, num_campaigns,
                            result, blocks_used, campaign_blocks)
            ELSE IF BudgetExceeded(blocks_used, est, available_blocks)
            THEN GreedyFill(Tail(items), available_blocks, num_campaigns,
                            result, blocks_used, campaign_blocks)
            ELSE GreedyFill(Tail(items), available_blocks, num_campaigns,
                            Append(result, sortie), blocks_used + est,
                            [campaign_blocks EXCEPT ![campaign] = current_campaign_blocks + est])

generate_briefing(energy, available_blocks) ==
    IF ActiveCampaigns = {} THEN <<>>
    ELSE GreedyFill(SortedCandidates(energy), available_blocks,
                    Cardinality(ActiveCampaigns), <<>>, 0,
                    [c \in DOMAIN campaigns |-> 0])

(***************************************************************************)
(* The briefing planner on a snapshot of the store.                        *)
(***************************************************************************)
NoBriefing == [called |-> FALSE, energy |-> "green", available_blocks |-> 0, result |-> <<>>]
NoObs == [fn |-> "none", campaign |-> 0, value |-> 0]

\* The sortie rows of the snapshots: every load and status on a one-block
\* sortie, and every size and sort_order on a queued medium sortie.
BriefingSortieRows ==
    [mission_id : MissionIds, cognitive_load : CognitiveLoad, estimated_blocks : {1},
     status : {"queued", "completed"}, sort_order : {0}]
    \cup
    [mission_id : MissionIds, cognitive_load : {"medium"}, estimated_blocks : 1..MaxEst,
     status : {"queued"}, sort_order : {0, 1}]

LoadIndex(load) == CASE load = "deep" -> 0 [] load = "medium" -> 1 [] OTHER -> 2

RowIndex(r) ==
    (((r.mission_id * 3 + LoadIndex(r.cognitive_load)) * 2
        + (IF r.status = "queued" THEN 0 ELSE 1)) * (MaxEst + 1)
        + r.estimated_blocks) * 2 + (1 - r.sort_order)

\* A completed sortie was completed a day ago by complete_sortie, which stamped
\* completed_at and logged one AAR of one block at the same instant.
BriefingSortie(r, t) ==
    [mission_id |-> r.mission_id, cognitive_load |-> r.cognitive_load,
     estimated_blocks |-> r.estimated_blocks, status |-> r.status,
     sort_order |-> r.sort_order,
     completed_at |-> IF r.status = "completed" THEN t - TicksPerDay ELSE NULL]

InitBriefing ==
    /\ now = 8 * TicksPerDay
    /\ campaigns \in
         {[c \in CampaignIds |-> [status |-> st[c], priority_rank |-> c,
                                  weekly_block_target |-> tg[c]]] :
            st \in [CampaignIds -> {"active", "paused"}],
            tg \in [CampaignIds -> {0, 2}]}
    /\ missions = [m \in MissionIds |-> [campaign_id |-> m]]
    /\ \E rows \in [SortieIds -> BriefingSortieRows] :
         /\ \A i, j \in SortieIds : i < j => RowIndex(rows[i]) <= RowIndex(rows[j])
         /\ sorties = [s \in SortieIds |-> BriefingSortie(rows[s], now)]
    /\ aars = {[id |-> s, sortie_id |-> s, actual_blocks |-> 1,
                created_at |-> sorties[s].completed_at] :
                 s \in {x \in SortieIds : sorties[x].status = "completed"}}
    /\ briefing = NoBriefing
    /\ obs = NoObs
    /\ checkins = {}
    /\ calls = <<>>
    /\ inflight = <<>>
    /\ urg = <<>>

\* One call on each snapshot: a call leaves the store as it found it, so a second
\* call would compute what a first call computes.
GenerateBriefing(energy, available_blocks) ==
    /\ ~briefing.called
    /\ briefing' = [called |-> TRUE, energy |-> energy,
                    available_blocks |-> available_blocks,
                    result |-> generate_briefing(energy, available_blocks)]
    /\ UNCHANGED <<campaigns, missions, sorties, aars, checkins, now, obs, urg, calls, inflight>>

NextBriefing ==
    \E energy \in EnergyLevel, available_blocks \in 0..MaxBlocks :
        GenerateBriefing(energy, available_blocks)

SpecBriefing == InitBriefing /\ [][NextBriefing]_vars

(***************************************************************************)
(* The health primitives on a snapshot of the store.                       *)
(***************************************************************************)
\* How long ago a sortie was touched: at the ends of the 3-day and 7-day
\* staleness thresholds and of the 7-day velocity window, and a tick past them.
Ages ==
    {0, 3 * TicksPerDay, 3 * TicksPerDay + 1, 4 * TicksPerDay,
     WINDOW_DAYS * TicksPerDay, WINDOW_DAYS * TicksPerDay + 1, 8 * TicksPerDay}

\* What the sortie API did to a sortie:
\*   untouched  created, never completed
\*   completed  complete_sortie with outcome completed: status, completed_at, one AAR
\*   partial    complete_sortie with another outcome on a started sortie:
\*              completed_at and one AAR, the status stays active
\*   bulk       bulk_update_sorties to completed: status and completed_at, no AAR
\*   updated    update_sortie to completed: the status alone
SortieHistories ==
    {[kind |-> "untouched", age |-> 0, blocks |-> 0],
     [kind |-> "updated", age |-> 0, blocks |-> 0]}
    \cup [kind : {"completed", "partial"}, age : Ages, blocks : 1..MaxActual]
    \cup [kind : {"bulk"}, age : Ages, blocks : {0}]

HistorySortie(h, mission_id, t) ==
    [mission_id |-> mission_id, cognitive_load |-> "medium", estimated_blocks |-> 1,
     status |-> CASE h.kind = "untouched" -> "queued"
                  [] h.kind = "partial" -> "active"
                  [] OTHER -> "completed",
     sort_order |-> 0,
     completed_at |-> IF h.kind \in {"untouched", "updated"} THEN NULL ELSE t - h.age]

HistoryAars(s, h, t) ==
    IF h.kind \in {"completed", "partial"}
    THEN {[id |-> s, sortie_id |-> s, actual_blocks |-> h.blocks, created_at |-> t - h.age]}
    ELSE {}

InitHealth ==
    /\ now = 8 * TicksPerDay
    /\ \E target \in {0, 5} :
         campaigns = [c \in CampaignIds |->
                        [status |-> "active", priority_rank |-> c,
                         weekly_block_target |-> IF c = 1 THEN target ELSE 5]]
    /\ missions = [m \in MissionIds |-> [campaign_id |-> m]]
    /\ \E h1, h2 \in SortieHistories :
       \E h3 \in {[kind |-> "untouched", age |-> 0, blocks |-> 0],
                  [kind |-> "completed", age |-> 0, blocks |-> MaxActual]} :
         /\ sorties = [s \in SortieIds |->
                         CASE s = 1 -> HistorySortie(h1, 1, now)
                           [] s = 2 -> HistorySortie(h2, 1, now)
                           [] OTHER -> HistorySortie(h3, 2, now)]
         /\ aars = HistoryAars(1, h1, now) \cup HistoryAars(2, h2, now)
                     \cup HistoryAars(3, h3, now)
    /\ briefing = NoBriefing
    /\ obs = NoObs
    /\ checkins = {}
    /\ calls = <<>>
    /\ inflight = <<>>
    /\ urg = <<>>

\* One call on each snapshot, as for the briefing.
ComputeStaleness(campaign_id) ==
    /\ obs.fn = "none"
    /\ obs' = [fn |-> "compute_staleness", campaign |-> campaign_id,
               value |-> compute_staleness(campaign_id)]
    /\ UNCHANGED <<campaigns, missions, sorties, aars, checkins, now, briefing, urg, calls, inflight>>

ComputeVelocity(campaign_id) ==
    /\ obs.fn = "none"
    /\ obs' = [fn |-> "compute_velocity", campaign |-> campaign_id,
               value |-> compute_velocity(campaign_id)]
    /\ UNCHANGED <<campaigns, missions, sorties, aars, checkins, now, briefing, urg, calls, inflight>>

ComputeCampaignHealth(campaign_id) ==
    /\ obs.fn = "none"
    /\ obs' = [fn |-> "compute_campaign_health", campaign |-> campaign_id,
               value |-> compute_campaign_health(campaign_id)]
    /\ UNCHANGED <<campaigns, missions, sorties, aars, checkins, now, briefing, urg, calls, inflight>>

NextHealth ==
    \E campaign_id \in CampaignIds :
        \/ ComputeStaleness(campaign_id)
        \/ ComputeVelocity(campaign_id)
        \/ ComputeCampaignHealth(campaign_id)

SpecHealth == InitHealth /\ [][NextHealth]_vars

(***************************************************************************)
(* The urgency score on a snapshot of the store.                           *)
(***************************************************************************)
InitUrgency ==
    /\ now = 8 * TicksPerDay
    /\ campaigns \in [CampaignIds -> [status : {"active", "paused"},
                                     priority_rank : 1..MaxRank,
                                     weekly_block_target : 0..2]]
    /\ missions = [m \in MissionIds |-> [campaign_id |-> m]]
    /\ \E h1, h3 \in {[kind |-> "untouched", age |-> 0, blocks |-> 0],
                      [kind |-> "completed", age |-> TicksPerDay, blocks |-> 1]} :
         /\ sorties = [s \in SortieIds |->
                         CASE s = 1 -> HistorySortie(h1, 1, now)
                           [] s = 2 -> HistorySortie([kind |-> "untouched", age |-> 0,
                                                      blocks |-> 0], 1, now)
                           [] OTHER -> HistorySortie(h3, 2, now)]
         /\ aars = HistoryAars(1, h1, now) \cup HistoryAars(3, h3, now)
    /\ briefing = NoBriefing
    /\ obs = NoObs
    /\ checkins = {}
    /\ calls = <<>>
    /\ inflight = <<>>
    /\ urg = <<>>

\* compute_urgency_score as generate_briefing calls it: for an active campaign,
\* with the number of active campaigns.  The call is kept with its deficit,
\* rank and staleness; score is 2 * num_campaigns * urgency.
ComputeUrgencyScore(campaign_id) ==
    /\ campaign_id \in ActiveCampaigns
    /\ Len(urg) < 2
    /\ LET n == Cardinality(ActiveCampaigns)
           call == [campaign |-> campaign_id,
                    num_campaigns |-> n,
                    priority_rank |-> campaigns[campaign_id].priority_rank,
                    deficit |-> Deficit(campaigns[campaign_id].weekly_block_target,
                                        compute_velocity(campaign_id)),
                    staleness |-> compute_staleness(campaign_id),
                    score |-> compute_urgency_score(campaign_id, n)]
       IN urg' = Append(urg, call)
    /\ UNCHANGED <<campaigns, missions, sorties, aars, checkins, now, briefing, obs, calls, inflight>>

NextUrgency == \E campaign_id \in CampaignIds : ComputeUrgencyScore(campaign_id)

SpecUrgency == InitUrgency /\ [][NextUrgency]_vars

(***************************************************************************)
(* Properties of the briefing planner (checked under SpecBriefing).        *)
(***************************************************************************)
RECURSIVE SeqBlocks(_)
SeqBlocks(seq) ==
    IF seq = <<>> THEN 0
    ELSE sorties[Head(seq)].estimated_blocks + SeqBlocks(Tail(seq))

RECURSIVE SetBlocks(_)
SetBlocks(S) ==
    IF S = {} THEN 0
    ELSE LET s == CHOOSE x \in S : TRUE
         IN sorties[s].estimated_blocks + SetBlocks(S \ {s})

Planned == {briefing.result[i] : i \in DOMAIN briefing.result}

\* The loads an energy level admits, as the specification lists them.
AdmittedLoads(energy) ==
    CASE energy = "green" -> {"deep", "medium", "light"}
      [] energy = "yellow" -> {"medium", "light"}
      [] energy = "red" -> {"light"}

\* A sortie the plan may take: queued, of an active campaign, of an admitted load.
Eligible(s, energy) ==
    /\ sorties[s].status = "queued"
    /\ campaigns[CampaignOf(s)].status = "active"
    /\ sorties[s].cognitive_load \in AdmittedLoads(energy)

EligibleSorties == {s \in DOMAIN sorties : Eligible(s, briefing.energy)}

\* The blocks the plan gives to campaign c.
Allocated(c) == SetBlocks({s \in Planned : CampaignOf(s) = c})

SixtyPercent(available_blocks) == (available_blocks * 6) \div 10

\* C1: the estimated blocks of the sorties generate_briefing returns sum to at
\* most available_blocks, whatever the store, the energy and the budget.
C1_WithinBudget ==
    briefing.called => SeqBlocks(briefing.result) <= briefing.available_blocks

\* A plan that uses the whole budget and leaves an eligible sortie out.
C1_Witness ==
    /\ briefing.called
    /\ briefing.available_blocks >= 3
    /\ SeqBlocks(briefing.result) = briefing.available_blocks
    /\ EligibleSorties \ Planned # {}

\* C2 as stated: with more than one active campaign no campaign gets more than
\* floor(available_blocks * 0.6) blocks, unless no other campaign has an eligible
\* sortie left out of the plan.
C2_Original ==
    (briefing.called /\ Cardinality(ActiveCampaigns) > 1) =>
        \A c \in ActiveCampaigns :
            \/ Allocated(c) <= SixtyPercent(briefing.available_blocks)
            \/ \A s \in EligibleSorties \ Planned : CampaignOf(s) = c

\* C2 as amended: with more than one active campaign no campaign gets more than
\* max(1, floor(available_blocks * 0.6)) blocks, with no exception.
C2_CapHolds ==
    (briefing.called /\ Cardinality(ActiveCampaigns) > 1) =>
        \A c \in ActiveCampaigns :
            Allocated(c) <= Max2(1, SixtyPercent(briefing.available_blocks))

\* The cap forces a skip: a campaign stands at its cap, one more of its eligible
\* sorties would still fit the budget and is left out, and the other campaign
\* has a sortie in the plan.
C2_Witness ==
    /\ briefing.called
    /\ Cardinality(ActiveCampaigns) > 1
    /\ \E s \in EligibleSorties \ Planned :
         /\ SeqBlocks(briefing.result) + sorties[s].estimated_blocks
              <= briefing.available_blocks
         /\ Allocated(CampaignOf(s)) = Max2(1, SixtyPercent(briefing.available_blocks))
         /\ \E r \in Planned : CampaignOf(r) # CampaignOf(s)

\* C3: every sortie generate_briefing returns is queued, belongs through its
\* mission to an active campaign, and has a load the energy admits.
C3_OnlyEligible ==
    briefing.called =>
        \A i \in DOMAIN briefing.result : Eligible(briefing.result[i], briefing.energy)

\* Yellow energy: a plan is returned while a queued deep sortie of an active
\* campaign and a queued admitted sortie of a paused campaign stay out.
C3_Witness ==
    /\ briefing.called
    /\ briefing.energy = "yellow"
    /\ briefing.result # <<>>
    /\ \E s \in DOMAIN sorties \ Planned :
         /\ sorties[s].status = "queued"
         /\ sorties[s].cognitive_load = "deep"
         /\ campaigns[CampaignOf(s)].status = "active"
    /\ \E s \in DOMAIN sorties \ Planned :
         /\ sorties[s].status = "queued"
         /\ sorties[s].cognitive_load = "light"
         /\ campaigns[CampaignOf(s)].status = "paused"

PlanUrgency(i) ==
    compute_urgency_score(CampaignOf(briefing.result[i]), Cardinality(ActiveCampaigns))

PlanSortOrder(i) == sorties[briefing.result[i]].sort_order

\* C4: the list returned is ordered by descending urgency of the owning
\* campaign and, among equal urgencies, by ascending sort_order.
C4_Ordered ==
    briefing.called =>
        \A i, j \in DOMAIN briefing.result :
            i < j =>
                \/ PlanUrgency(i) > PlanUrgency(j)
                \/ (PlanUrgency(i) = PlanUrgency(j) /\ PlanSortOrder(i) <= PlanSortOrder(j))

\* A plan of three sorties: two of one campaign in sort_order, listed against
\* their order of insertion, then one of a less urgent campaign.
C4_Witness ==
    /\ briefing.called
    /\ Len(briefing.result) = 3
    /\ PlanUrgency(1) = PlanUrgency(2)
    /\ PlanSortOrder(1) < PlanSortOrder(2)
    /\ briefing.result[1] > briefing.result[2]
    /\ PlanUrgency(2) > PlanUrgency(3)

\* C5: generate_briefing is the greedy scan with skip over the sorted candidates:
\* a candidate is in the plan iff, given the candidates before it that are in the
\* plan, it fits the budget and (with several active campaigns) its campaign's
\* cap, and the plan lists the admitted candidates in the sorted order.
C5_GreedyWithSkip ==
    briefing.called =>
        LET sorted == IF ActiveCampaigns = {} THEN <<>>
                      ELSE SortedCandidates(briefing.energy)
            ab == briefing.available_blocks
            before(k) == {sorted[j] : j \in 1..(k - 1)} \cap Planned
            fits(k) ==
                /\ SetBlocks(before(k)) + sorties[sorted[k]].estimated_blocks <= ab
                /\ Cardinality(ActiveCampaigns) > 1 =>
                     SetBlocks({s \in before(k) : CampaignOf(s) = CampaignOf(sorted[k])})
                       + sorties[sorted[k]].estimated_blocks
                         <= Max2(1, SixtyPercent(ab))
        IN /\ \A k \in DOMAIN sorted : (sorted[k] \in Planned) <=> fits(k)
           /\ briefing.result = SelectSeq(sorted, LAMBDA s : s \in Planned)

\* One active campaign: a two-block candidate is skipped for the budget and a
\* candidate after it is still admitted.
C5_Witness ==
    /\ briefing.called
    /\ Cardinality(ActiveCampaigns) = 1
    /\ LET sorted == SortedCandidates(briefing.energy)
       IN \E i, j \in DOMAIN sorted :
            /\ i < j
            /\ sorted[i] \notin Planned
            /\ sorted[j] \in Planned
            /\ \E h \in DOMAIN sorted : h < i /\ sorted[h] \in Planned

\* C6: with exactly one active campaign the cap is not applied; when all its
\* eligible sorties are of one block, the plan is the first
\* min(k, available_blocks) of them in ascending sort_order.
C6_SingleCampaignNoCap ==
    (/\ briefing.called
     /\ Cardinality(ActiveCampaigns) = 1
     /\ \A s \in EligibleSorties : sorties[s].estimated_blocks = 1) =>
        /\ Planned \subseteq EligibleSorties
        /\ Len(briefing.result) =
             Min2(Cardinality(EligibleSorties), briefing.available_blocks)
        /\ Cardinality(Planned) = Len(briefing.result)
        /\ \A i, j \in DOMAIN briefing.result :
             i < j => PlanSortOrder(i) <= PlanSortOrder(j)
        /\ \A r \in Planned, s \in EligibleSorties \ Planned :
             sorties[r].sort_order <= sorties[s].sort_order

\* One active campaign with three eligible one-block sorties and a budget of
\* two: the plan takes two blocks, more than the cap of one, and leaves out a
\* sortie of a higher sort_order.
C6_Witness ==
    /\ briefing.called
    /\ Cardinality(ActiveCampaigns) = 1
    /\ Cardinality(EligibleSorties) = 3
    /\ \A s \in EligibleSorties : sorties[s].estimated_blocks = 1
    /\ briefing.available_blocks = 2
    /\ SeqBlocks(briefing.result) = 2
    /\ \E r \in Planned, s \in EligibleSorties \ Planned :
         sorties[r].sort_order < sorties[s].sort_order

(***************************************************************************)
(* Properties of the urgency score (checked under SpecUrgency).            *)
(***************************************************************************)
\* C7: for a fixed number of active campaigns and a fixed staleness, the urgency
\* score is non-decreasing in the deficit with the priority_rank held fixed, and
\* non-increasing in the priority_rank with the deficit held fixed.
C7_UrgencyMonotone ==
    \A i, j \in DOMAIN urg :
        (urg[i].num_campaigns = urg[j].num_campaigns
            /\ urg[i].staleness = urg[j].staleness) =>
            /\ (urg[i].priority_rank = urg[j].priority_rank
                  /\ urg[i].deficit <= urg[j].deficit)
                 => urg[i].score <= urg[j].score
            /\ (urg[i].deficit = urg[j].deficit
                  /\ urg[i].priority_rank <= urg[j].priority_rank)
                 => urg[i].score >= urg[j].score

(***************************************************************************)
(* Properties of the health primitives (checked under SpecHealth).         *)
(***************************************************************************)
\* AAR a belongs to campaign c: the join AAR -> sortie -> mission -> campaign.
AarOfCampaign(a, c) ==
    \E s \in DOMAIN sorties, m \in DOMAIN missions :
        /\ a.sortie_id = s
        /\ sorties[s].mission_id = m
        /\ missions[m].campaign_id = c

SevenDaysAgo == now - 7 * TicksPerDay

\* C8 as stated: compute_velocity sums actual_blocks over the campaign's AARs
\* with now - 7 days <= created_at < now.
C8_Original ==
    obs.fn = "compute_velocity" =>
        obs.value = SumActual({a \in aars :
                        /\ AarOfCampaign(a, obs.campaign)
                        /\ SevenDaysAgo <= a.created_at
                        /\ a.created_at < now})

\* C8 as amended: compute_velocity sums actual_blocks over the campaign's AARs
\* with created_at >= now - 7 days, an AAR stamped exactly now included; it is 0
\* when there is none.
C8_VelocityFromCutoff ==
    obs.fn = "compute_velocity" =>
        obs.value = SumActual({a \in aars :
                        /\ AarOfCampaign(a, obs.campaign)
                        /\ SevenDaysAgo <= a.created_at})

\* The velocity counts an AAR stamped exactly 7 days ago and one stamped exactly
\* now, while the other campaign has an AAR in the window too.
C8_Witness ==
    /\ obs.fn = "compute_velocity"
    /\ \E a, b \in aars :
         /\ AarOfCampaign(a, obs.campaign) /\ a.created_at = SevenDaysAgo
         /\ AarOfCampaign(b, obs.campaign) /\ b.created_at = now
         /\ obs.value = a.actual_blocks + b.actual_blocks
    /\ \E a \in aars : ~AarOfCampaign(a, obs.campaign)

\* The completed_at stamps compute_staleness looks at.
CompletedStamps(c) ==
    {sorties[s].completed_at :
        s \in {x \in DOMAIN sorties :
                 /\ missions[sorties[x].mission_id].campaign_id = c
                 /\ sorties[x].status = "completed"
                 /\ sorties[x].completed_at # NULL}}

\* C9: compute_staleness is 999 when the campaign has no completed sortie with a
\* completed_at, and otherwise the whole days, rounded down, from the latest
\* completed_at of its completed sorties to now.
C9_Staleness ==
    obs.fn = "compute_staleness" =>
        IF CompletedStamps(obs.campaign) = {} THEN obs.value = 999
        ELSE \E latest \in CompletedStamps(obs.campaign) :
                /\ \A t \in CompletedStamps(obs.campaign) : t <= latest
                /\ obs.value * TicksPerDay <= now - latest
                /\ now - latest < (obs.value + 1) * TicksPerDay

\* The latest completion lies three days and a tick back and the staleness is 3,
\* although a sortie that is not completed carries a later completed_at.
C9_Witness ==
    /\ obs.fn = "compute_staleness"
    /\ obs.value = 3
    /\ 3 * TicksPerDay + 1 \in {now - t : t \in CompletedStamps(obs.campaign)}
    /\ \E s \in DOMAIN sorties :
         /\ CampaignOf(s) = obs.campaign
         /\ sorties[s].status # "completed"
         /\ sorties[s].completed_at = now

\* C10: compute_campaign_health is green when weekly_block_target is 0;
\* otherwise, with adherence = min(velocity / weekly_block_target, 1), green iff
\* adherence >= 0.8 and staleness <= 3, else yellow iff adherence >= 0.4 or
\* staleness <= 7, else red.
C10_Health ==
    obs.fn = "compute_campaign_health" =>
        LET target == campaigns[obs.campaign].weekly_block_target
            staleness == compute_staleness(obs.campaign)
            \* adherence = capped / target
            capped == Min2(compute_velocity(obs.campaign), target)
        IN obs.value =
             IF target = 0 THEN "green"
             ELSE IF 10 * capped >= 8 * target /\ staleness <= 3 THEN "green"
             ELSE IF 10 * capped >= 4 * target \/ staleness <= 7 THEN "yellow"
             ELSE "red"

\* Adherence exactly 0.8 with staleness exactly 3 is green.
C10_Witness ==
    /\ obs.fn = "compute_campaign_health"
    /\ campaigns[obs.campaign].weekly_block_target = 5
    /\ compute_velocity(obs.campaign) = 4
    /\ compute_staleness(obs.campaign) = 3
    /\ obs.value = "green"

(***************************************************************************)
(* Python float arithmetic.  A float is an IEEE-754 binary64: each         *)
(* division, addition and subtraction returns the exact result rounded to  *)
(* MantissaBits significant bits, ties to even.  A magnitude is kept here  *)
(* exactly, as a fixed-point numeral of NLimbs limbs in base LimbBase: an  *)
(* integer limb followed by NLimbs - 1 fractional limbs.  Every magnitude  *)
(* the services compute is 0 or lies above 2^-19, so the numeral holds all *)
(* of its MantissaBits bits.  A float is [neg, mag].                       *)
(***************************************************************************)
MantissaBits == 53
LimbBits == 12
LimbBase == 2 ^ LimbBits
NLimbs == 7

FloatZero == [neg |-> FALSE, mag |-> [i \in 1..NLimbs |-> 0]]

\* float(n) of an int n >= 0
FromInt(n) == [i \in 1..NLimbs |-> IF i = 1 THEN n ELSE 0]

\* The exact sum of two magnitudes: the limbs from i on and the carry out.
RECURSIVE AddLimbs(_, _, _)
AddLimbs(x, y, i) ==
    IF i > NLimbs THEN [s |-> <<>>, c |-> 0]
    ELSE LET r == AddLimbs(x, y, i + 1)
             t == x[i] + y[i] + r.c
         IN IF i = 1 THEN [s |-> <<t>> \o r.s, c |-> 0]
            ELSE [s |-> <<t % LimbBase>> \o r.s, c |-> t \div LimbBase]

\* The exact difference of two magnitudes x >= y.
RECURSIVE SubLimbs(_, _, _)
SubLimbs(x, y, i) ==
    IF i > NLimbs THEN [s |-> <<>>, c |-> 0]
    ELSE LET r == SubLimbs(x, y, i + 1)
             t == x[i] - y[i] - r.c
         IN IF i = 1 THEN [s |-> <<t>> \o r.s, c |-> 0]
            ELSE [s |-> <<t % LimbBase>> \o r.s, c |-> IF t < 0 THEN 1 ELSE 0]

\* The exact product of a magnitude and an int k >= 0.
RECURSIVE MulLimbs(_, _, _)
MulLimbs(x, k, i) ==
    IF i > NLimbs THEN [s |-> <<>>, c |-> 0]
    ELSE LET r == MulLimbs(x, k, i + 1)
             t == x[i] * k + r.c
         IN IF i = 1 THEN [s |-> <<t>> \o r.s, c |-> 0]
            ELSE [s |-> <<t % LimbBase>> \o r.s, c |-> t \div LimbBase]

\* The quotient of a magnitude by an int d > 0, cut after the last limb, and
\* whether anything was cut off.
RECURSIVE DivLimbs(_, _, _, _, _)
DivLimbs(x, d, i, rem, acc) ==
    IF i > NLimbs THEN [q |-> acc, sticky |-> rem # 0]
    ELSE LET cur == rem * LimbBase + x[i]
         IN DivLimbs(x, d, i + 1, cur % d, Append(acc, cur \div d))

MagLess(x, y) == \E i \in 1..NLimbs : x[i] < y[i] /\ \A j \in 1..(i - 1) : x[j] = y[j]

MagZero(x) == \A i \in 1..NLimbs : x[i] = 0

\* The number of bits of an int v >= 1.
BitLength(v) == CHOOSE k \in 1..31 : 2 ^ (k - 1) <= v /\ (k = 31 \/ v < 2 ^ k)

\* The position of the leading bit of a numeral x # 0.  Bit positions count
\* from the top of limb 2: the unit bit of the integer limb is position 0.
LeadingBit(x) ==
    LET f == CHOOSE i \in 1..NLimbs : x[i] # 0 /\ \A j \in 1..(i - 1) : x[j] = 0
    IN IF f = 1 THEN 1 - BitLength(x[1])
       ELSE LimbBits * (f - 2) + (LimbBits - BitLength(x[f])) + 1

\* The limb that holds bit position last, and the number of bits of that
\* limb below the position.
LimbOfBit(last) == IF last <= 0 THEN 1 ELSE (last - 1) \div LimbBits + 2

BitsBelow(last) ==
    IF last <= 0 THEN 0 - last ELSE LimbBits * (LimbOfBit(last) - 1) - last

\* x cut after the bit s of limb L and rounded to nearest, ties to even;
\* sticky tells whether anything was already cut off beyond x.
RoundAtBit(x, sticky, L, s) ==
    LET low == x[L] % (2 ^ s)
        tail == sticky \/ \E j \in (L + 1)..NLimbs : x[j] # 0
        guard == IF s >= 1 THEN low \div (2 ^ (s - 1))
                 ELSE IF L < NLimbs THEN x[L + 1] \div (2 ^ (LimbBits - 1))
                 ELSE 0
        rest == IF s >= 1 THEN (low % (2 ^ (s - 1)) # 0) \/ tail
                ELSE IF L < NLimbs
                     THEN \/ x[L + 1] % (2 ^ (LimbBits - 1)) # 0
                          \/ sticky
                          \/ \E j \in (L + 2)..NLimbs : x[j] # 0
                     ELSE sticky
        odd == (x[L] \div (2 ^ s)) % 2 = 1
        kept == [i \in 1..NLimbs |->
                    IF i < L THEN x[i] ELSE IF i = L THEN x[L] - low ELSE 0]
        ulp == [i \in 1..NLimbs |-> IF i = L THEN 2 ^ s ELSE 0]
    IN IF guard = 1 /\ (rest \/ odd) THEN AddLimbs(kept, ulp, 1).s ELSE kept

\* x rounded so that bit position last is its last significant bit.
RoundAt(x, sticky, last) ==
    IF last >= LimbBits * (NLimbs - 1) THEN x
    ELSE RoundAtBit(x, sticky, LimbOfBit(last), BitsBelow(last))

\* Round to nearest, ties to even, at MantissaBits significant bits: the
\* numeral x with whatever was cut off beyond it (sticky).
RoundToNearestEven(x, sticky) ==
    IF MagZero(x) THEN x ELSE RoundAt(x, sticky, LeadingBit(x) + MantissaBits - 1)

\* n / d of two ints, n >= 0, d > 0
FloatDivInts(n, d) ==
    LET r == DivLimbs(FromInt(n), d, 1, 0, <<>>)
    IN [neg |-> FALSE, mag |-> RoundToNearestEven(r.q, r.sticky)]

\* a / d of a float and an int d > 0
FloatDivInt(a, d) ==
    LET r == DivLimbs(a.mag, d, 1, 0, <<>>)
    IN [neg |-> a.neg, mag |-> RoundToNearestEven(r.q, r.sticky)]

FloatNeg(a) == [neg |-> ~a.neg /\ ~MagZero(a.mag), mag |-> a.mag]

\* abs(a)
FloatAbs(a) == [neg |-> FALSE, mag |-> a.mag]

\* The exact sum of two floats, before it is rounded.
ExactSum(a, b) ==
    IF a.neg = b.neg THEN [neg |-> a.neg, mag |-> AddLimbs(a.mag, b.mag, 1).s]
    ELSE IF MagLess(a.mag, b.mag)
    THEN [neg |-> b.neg, mag |-> SubLimbs(b.mag, a.mag, 1).s]
    ELSE [neg |-> a.neg /\ a.mag # b.mag, mag |-> SubLimbs(a.mag, b.mag, 1).s]

RoundFloat(x) == [neg |-> x.neg, mag |-> RoundToNearestEven(x.mag, FALSE)]

\* a + b
FloatAdd(a, b) == RoundFloat(ExactSum(a, b))

\* a - b
FloatSub(a, b) == FloatAdd(a, [neg |-> ~b.neg, mag |-> b.mag])

\* a < b
FloatLess(a, b) ==
    IF a.neg /\ ~b.neg THEN ~(MagZero(a.mag) /\ MagZero(b.mag))
    ELSE IF ~a.neg /\ b.neg THEN FALSE
    ELSE IF a.neg THEN MagLess(b.mag, a.mag)
    ELSE MagLess(a.mag, b.mag)

\* round(a, ndigits) as the signed count of units of 10^-ndigits, scale =
\* 10^ndigits: the exact value of a times scale, rounded half to even.
PyRound(a, scale) ==
    LET m == MulLimbs(a.mag, scale, 1).s
        half == 2 ^ (LimbBits - 1)
        above == m[2] > half \/ (m[2] = half /\ \E j \in 3..NLimbs : m[j] # 0)
        tie == m[2] = half /\ \A j \in 3..NLimbs : m[j] = 0
        k == IF above \/ (tie /\ m[1] % 2 = 1) THEN m[1] + 1 ELSE m[1]
    IN IF a.neg THEN 0 - k ELSE k

\* a * k of a float and an int k >= 0
FloatMulInt(a, k) ==
    [neg |-> a.neg, mag |-> RoundToNearestEven(MulLimbs(a.mag, k, 1).s, FALSE)]

\* The float a field holds after round(x, ndigits): the float nearest to
\* units / scale.
FloatOfUnits(units, scale) ==
    IF units < 0 THEN FloatNeg(FloatDivInts(0 - units, scale))
    ELSE FloatDivInts(units, scale)

(***************************************************************************)
(* services/drift.py                                                       *)
(***************************************************************************)
\* 0.15 and 0.05: the floats nearest to 3/20 and 1/20
MISALIGNMENT_THRESHOLD == FloatDivInts(3, 20)
TREND_THRESHOLD == FloatDivInts(1, 20)

WindowRow_Closed(a, campaign_id, window_start, window_end) ==
    /\ CampaignOf(a.sortie_id) = campaign_id
    /\ a.created_at >= window_start
    /\ a.created_at <= window_end

\* The rows of the windowed sum: AARs of the campaign inside
\* [window_start, window_end).
WindowRow(a, campaign_id, window_start, window_end) ==
    /\ CampaignOf(a.sortie_id) = campaign_id
    /\ a.created_at >= window_start
    /\ a.created_at < window_end

blocks_for_campaign_in_window(campaign_id, window_start, window_end) ==
    SumActual({a \in aars : WindowRow(a, campaign_id, window_start, window_end)})

RECURSIVE SumOver(_, _)
SumOver(f, S) ==
    IF S = {} THEN 0
    ELSE LET x == CHOOSE y \in S : TRUE IN f[x] + SumOver(f, S \ {x})

Positive_OrZero(total) == total >= 0

\* total > 0, the test that guards a division by total
Positive(total) == total > 0

ShareOrZero_Whole(part, total) ==
    IF Positive(total) THEN FloatDivInts(part, total)
    ELSE [neg |-> FALSE, mag |-> FromInt(1)]

\* part / total if total > 0 else 0.0
ShareOrZero(part, total) == IF Positive(total) THEN FloatDivInts(part, total) ELSE FloatZero

\* The denominator of that division, if it is carried out.
ShareDivisors(total) == IF Positive(total) THEN {total} ELSE {}

\* The actual share of a campaign in a window, over the active campaigns.
WindowShare(campaign_id, window_start, window_end) ==
    LET total_blocks == SumOver(
            [c \in ActiveCampaigns |->
                blocks_for_campaign_in_window(c, window_start, window_end)],
            ActiveCampaigns)
    IN ShareOrZero(blocks_for_campaign_in_window(campaign_id, window_start, window_end),
                   total_blocks)

\* sum(abs(d) for d in past_drifts): left to right, starting from the int 0
RECURSIVE SumAbs(_, _)
SumAbs(ds, acc) ==
    IF ds = <<>> THEN acc ELSE SumAbs(Tail(ds), FloatAdd(acc, FloatAbs(Head(ds))))

TrendLabel(drift_change) ==
    IF FloatLess(FloatAbs(drift_change), TREND_THRESHOLD) THEN "stable"
    ELSE IF FloatLess(drift_change, FloatZero) THEN "improving"
    ELSE "worsening"

PastDrift(campaign_id, current_expected_share, t, weeks_ago) ==
    LET window_end == t - 7 * weeks_ago * TicksPerDay
        window_start == window_end - 7 * TicksPerDay
    IN FloatSub(WindowShare(campaign_id, window_start, window_end),
                current_expected_share)

compute_trend(campaign_id, current_expected_share, t) ==
    LET past_drifts == [w \in 1..3 |-> PastDrift(campaign_id, current_expected_share, t, w)]
        avg_past_abs_drift == FloatDivInt(SumAbs(past_drifts, FloatZero), Len(past_drifts))
        current_drift == FloatSub(WindowShare(campaign_id, t - 7 * TicksPerDay, t),
                                  current_expected_share)
        drift_change == FloatSub(FloatAbs(current_drift), avg_past_abs_drift)
    IN IF past_drifts = <<>> THEN "new" ELSE TrendLabel(drift_change)

\* select(Campaign).where(status == active).order_by(priority_rank)
ActiveByRank ==
    StableSort(SetToSeq(ActiveCampaigns),
               {ab \in ActiveCampaigns \X ActiveCampaigns :
                    campaigns[ab[1]].priority_rank < campaigns[ab[2]].priority_rank})

\* abs(drift) > MISALIGNMENT_THRESHOLD
Misaligned(drift) == FloatLess(MISALIGNMENT_THRESHOLD, FloatAbs(drift))

\* One CampaignDrift; the rounded fields are counted in thousandths.
CampaignDrift(campaign_id, campaign_blocks, total_blocks, total_target, t) ==
    LET expected_share == ShareOrZero(campaigns[campaign_id].weekly_block_target,
                                      total_target)
        actual_share == ShareOrZero(campaign_blocks[campaign_id], total_blocks)
        drift == FloatSub(actual_share, expected_share)
    IN [campaign_id |-> campaign_id,
        priority_rank |-> campaigns[campaign_id].priority_rank,
        weekly_block_target |-> campaigns[campaign_id].weekly_block_target,
        blocks_this_week |-> campaign_blocks[campaign_id],
        expected_share |-> PyRound(expected_share, 1000),
        actual_share |-> PyRound(actual_share, 1000),
        drift |-> PyRound(drift, 1000),
        is_misaligned |-> Misaligned(drift),
        trend |-> compute_trend(campaign_id, expected_share, t)]

\* round(x * 100) of a rounded field of the report
Percent(units) == PyRound(FloatMulInt(FloatOfUnits(units, 1000), 100), 1)

StatementKind(d) == IF d.drift > 0 THEN "Over-allocated" ELSE "Under-allocated"

Statement(d) ==
    [campaign_id |-> d.campaign_id,
     priority_rank |-> d.priority_rank,
     actual_pct |-> Percent(d.actual_share),
     expected_pct |-> Percent(d.expected_share),
     kind |-> StatementKind(d),
     by_pct |-> Percent(IF d.drift < 0 THEN 0 - d.drift ELSE d.drift)]

RECURSIVE Statements(_)
Statements(drifts) ==
    IF drifts = <<>> THEN <<>>
    ELSE (IF Head(drifts).is_misaligned THEN <<Statement(Head(drifts))>> ELSE <<>>)
         \o Statements(Tail(drifts))

Abs(n) == IF n < 0 THEN 0 - n ELSE n

\* drifts.sort(key=lambda d: abs(d.drift), reverse=True), and the report
DriftReport(by_id, total_blocks, today) ==
    LET order == StableSort(ActiveByRank,
                            {ab \in ActiveCampaigns \X ActiveCampaigns :
                                 Abs(by_id[ab[1]].drift) > Abs(by_id[ab[2]].drift)})
    IN [date |-> today, total_blocks_this_week |-> total_blocks,
        campaigns |-> [i \in 1..Len(order) |-> by_id[order[i]]],
        misalignment_statements |->
            Statements([i \in 1..Len(order) |-> by_id[order[i]]])]

\* compute_drift(session, now=t) run on the day `today` of the wall clock
compute_drift(t, today) ==
    IF ActiveCampaigns = {}
    THEN [date |-> today, total_blocks_this_week |-> 0, campaigns |-> <<>>,
          misalignment_statements |-> <<>>]
    ELSE LET week_ago == t - 7 * TicksPerDay
             campaign_blocks == [c \in ActiveCampaigns |->
                                    blocks_for_campaign_in_window(c, week_ago, t)]
             total_blocks == SumOver(campaign_blocks, ActiveCampaigns)
             total_target == SumOver([c \in ActiveCampaigns |->
                                         campaigns[c].weekly_block_target],
                                     ActiveCampaigns)
         IN DriftReport([c \in ActiveCampaigns |->
                            CampaignDrift(c, campaign_blocks, total_blocks, total_target, t)],
                        total_blocks, today)

(***************************************************************************)
(* The drift report over snapshots of three campaigns.  Campaign 1 has two *)
(* sorties with an AAR of 3 blocks and one of 1 block, campaign 2 one      *)
(* sortie with an AAR of 1 block, campaign 3 no sortie; an AAR is absent   *)
(* or has one of the ages that meet the edges of the four windows.         *)
(***************************************************************************)
DriftCampaignIds == {1, 2, 3}

DriftClock == 30 * TicksPerDay

DriftAges == {NULL, 0, 1, 7 * TicksPerDay, 14 * TicksPerDay, 21 * TicksPerDay,
              28 * TicksPerDay, 28 * TicksPerDay + 1}

DriftSortie(mission_id, age, t) ==
    [mission_id |-> mission_id, cognitive_load |-> "medium", estimated_blocks |-> 1,
     status |-> IF age = NULL THEN "queued" ELSE "completed", sort_order |-> 0,
     completed_at |-> IF age = NULL THEN NULL ELSE t - age]

InitDrift ==
    /\ now = DriftClock
    /\ \E st \in [DriftCampaignIds -> {"active", "other"}],
          target \in [DriftCampaignIds -> {0, 2}] :
         campaigns = [c \in DriftCampaignIds |->
             [status |-> IF st[c] = "active" THEN "active"
                         ELSE IF c = 1 THEN "paused"
                         ELSE IF c = 2 THEN "completed" ELSE "archived",
              priority_rank |-> IF c = 2 THEN 1 ELSE 2,
              weekly_block_target |-> IF c = 1 /\ target[c] = 2 THEN 3 ELSE target[c]]]
    /\ missions = [m \in DriftCampaignIds |-> [campaign_id |-> m]]
    /\ \E age1 \in DriftAges,
          age2 \in DriftAges \ {0, 28 * TicksPerDay + 1},
          age3 \in {NULL, 1} :
         /\ sorties = <<DriftSortie(1, age1, now), DriftSortie(2, age2, now),
                        DriftSortie(1, age3, now)>>
         /\ aars = {[id |-> s, sortie_id |-> s,
                     actual_blocks |-> IF s = 1 THEN 3 ELSE 1,
                     created_at |-> sorties[s].completed_at] :
                    s \in {x \in 1..3 : sorties[x].status = "completed"}}
    /\ checkins = {}
    /\ briefing = NoBriefing
    /\ obs = NoObs
    /\ urg = <<>>
    /\ calls = <<>>
    /\ inflight = <<>>

\* compute_drift(session): now defaults to the wall clock
ComputeDrift ==
    /\ calls = <<>>
    /\ calls' = <<[fn |-> "compute_drift", arg |-> now,
                   result |-> compute_drift(now, now \div TicksPerDay)]>>
    /\ UNCHANGED <<campaigns, missions, sorties, aars, checkins, now, briefing, obs, urg, inflight>>

NextDrift == ComputeDrift

SpecDrift == InitDrift /\ [][NextDrift]_vars

(***************************************************************************)
(* Properties of the drift report.  Shares are compared exactly here, as   *)
(* ratios of integers.                                                     *)
(***************************************************************************)
DriftCalled == calls # <<>> /\ calls[1].fn = "compute_drift"

DriftEntries == calls[1].result.campaigns

\* The blocks the AARs of campaign c log with from <= created_at < to.
RECURSIVE AarBlocks(_)
AarBlocks(rows) ==
    IF rows = {} THEN 0
    ELSE LET a == CHOOSE x \in rows : TRUE IN a.actual_blocks + AarBlocks(rows \ {a})

Logged(c, from, to) ==
    AarBlocks({a \in aars : AarOfCampaign(a, c) /\ from <= a.created_at /\ a.created_at < to})

RECURSIVE TotalLogged(_, _, _)
TotalLogged(cs, from, to) ==
    IF cs = {} THEN 0
    ELSE LET c == CHOOSE x \in cs : TRUE
         IN Logged(c, from, to) + TotalLogged(cs \ {c}, from, to)

RECURSIVE TotalTarget(_)
TotalTarget(cs) ==
    IF cs = {} THEN 0
    ELSE LET c == CHOOSE x \in cs : TRUE
         IN campaigns[c].weekly_block_target + TotalTarget(cs \ {c})

Active == {c \in DOMAIN campaigns : campaigns[c].status = "active"}

WeekBlocks(c) == Logged(c, SevenDaysAgo, now)

WeekTotal == TotalLogged(Active, SevenDaysAgo, now)

\* C11 as stated: with exactly one active campaign the report gives it drift 0
\* and is_misaligned = false, whatever its target and its logged blocks.
C11_Original ==
    (DriftCalled /\ Cardinality(Active) = 1) =>
        /\ Len(DriftEntries) = 1
        /\ DriftEntries[1].drift = 0
        /\ ~DriftEntries[1].is_misaligned

\* C11: with exactly one active campaign the report gives it drift 0 and
\* is_misaligned = false exactly when its weekly_block_target is > 0 and it
\* logged a block in [now - 7 days, now), or both are 0; with a target > 0 and
\* no block logged the drift is -1, with target 0 and a block logged it is +1,
\* and in both cases the campaign is flagged misaligned.
C11_SingleCampaignDrift ==
    (DriftCalled /\ Cardinality(Active) = 1) =>
        LET c == CHOOSE x \in Active : TRUE
            d == DriftEntries[1]
            actual == IF WeekBlocks(c) > 0 THEN 1000 ELSE 0
            expected == IF campaigns[c].weekly_block_target > 0 THEN 1000 ELSE 0
        IN /\ Len(DriftEntries) = 1
           /\ d.campaign_id = c
           /\ d.actual_share = actual
           /\ d.expected_share = expected
           /\ d.drift = actual - expected
           /\ d.is_misaligned = (actual # expected)

C11_Witness ==
    /\ DriftCalled
    /\ Cardinality(Active) = 1
    /\ \E c \in Active : campaigns[c].weekly_block_target > 0 /\ WeekBlocks(c) > 0
    /\ DriftEntries[1].drift = 0

RECURSIVE SumField(_, _)
SumField(entries, field) ==
    IF entries = <<>> THEN 0 ELSE Head(entries)[field] + SumField(Tail(entries), field)

\* C12 as stated: in a report over active campaigns the expected shares sum to
\* 1 when the total target is > 0, the actual shares sum to 1 when a block was
\* logged in [now - 7 days, now), and every share is 0 when its total is 0.
C12_Original ==
    (DriftCalled /\ Active # {}) =>
        /\ IF TotalTarget(Active) > 0
           THEN SumField(DriftEntries, "expected_share") = 1000
           ELSE \A i \in DOMAIN DriftEntries : DriftEntries[i].expected_share = 0
        /\ IF WeekTotal > 0
           THEN SumField(DriftEntries, "actual_share") = 1000
           ELSE \A i \in DOMAIN DriftEntries : DriftEntries[i].actual_share = 0

\* n / d rounded to thousandths gives units.
RoundsTo(n, d, units) == 2 * Abs(1000 * n - d * units) <= d

\* C12: in a report over active campaigns each expected share is the
\* campaign's target over the total target, rounded to three decimals, when
\* the total target is > 0, and each actual share is the campaign's blocks
\* logged in [now - 7 days, now) over the total so logged, rounded to three
\* decimals, when that total is > 0; the shares reported so sum to 1 to within
\* 0.0005 per campaign, and every share is 0 when its total is 0.
C12_SharesSum ==
    (DriftCalled /\ Active # {}) =>
        LET n == Len(DriftEntries)
            entry(i) == DriftEntries[i]
        IN /\ {entry(i).campaign_id : i \in 1..n} = Active
           /\ n = Cardinality(Active)
           /\ IF TotalTarget(Active) > 0
              THEN /\ \A i \in 1..n :
                        RoundsTo(campaigns[entry(i).campaign_id].weekly_block_target,
                                 TotalTarget(Active), entry(i).expected_share)
                   /\ 2 * Abs(SumField(DriftEntries, "expected_share") - 1000) <= n
              ELSE \A i \in 1..n : entry(i).expected_share = 0
           /\ IF WeekTotal > 0
              THEN /\ \A i \in 1..n :
                        RoundsTo(WeekBlocks(entry(i).campaign_id), WeekTotal,
                                 entry(i).actual_share)
                   /\ 2 * Abs(SumField(DriftEntries, "actual_share") - 1000) <= n
              ELSE \A i \in 1..n : entry(i).actual_share = 0

C12_Witness ==
    /\ DriftCalled
    /\ Cardinality(Active) = 3
    /\ TotalTarget(Active) > 0
    /\ WeekTotal > 0
    /\ SumField(DriftEntries, "expected_share") # 1000
    /\ SumField(DriftEntries, "actual_share") = 1000

\* Exact fractions [n, d] with d > 0, kept in lowest terms.
RECURSIVE Gcd(_, _)
Gcd(a, b) == IF b = 0 THEN a ELSE Gcd(b, a % b)

Frac(n, d) == LET g == Gcd(Abs(n), d) IN [n |-> n \div g, d |-> d \div g]

FracOrZero(n, d) == IF d > 0 THEN Frac(n, d) ELSE [n |-> 0, d |-> 1]

FracSub(x, y) == Frac(x.n * y.d - y.n * x.d, x.d * y.d)

FracAdd(x, y) == Frac(x.n * y.d + y.n * x.d, x.d * y.d)

FracAbs(x) == [n |-> Abs(x.n), d |-> x.d]

FracLess(x, y) == x.n * y.d < y.n * x.d

\* The exact shares and drift of an active campaign in the window that ends
\* at `to`, against its current expected share.
ExactExpected(c) == FracOrZero(campaigns[c].weekly_block_target, TotalTarget(Active))

ExactActual(c, to) ==
    FracOrZero(Logged(c, to - 7 * TicksPerDay, to),
               TotalLogged(Active, to - 7 * TicksPerDay, to))

ExactDrift(c, to) == FracSub(ExactActual(c, to), ExactExpected(c))

MisalignedEntries == SelectSeq(DriftEntries, LAMBDA d : d.is_misaligned)

\* C13: compute_drift flags a campaign is_misaligned iff |actual_share -
\* expected_share| > 0.15, a drift of exactly 0.15 not being misaligned, and
\* misalignment_statements holds exactly one statement for each misaligned
\* campaign and none for another, Over-allocated when the drift is > 0 and
\* Under-allocated otherwise.
C13_Misalignment ==
    DriftCalled =>
        LET statements == calls[1].result.misalignment_statements
        IN /\ \A i \in DOMAIN DriftEntries :
                DriftEntries[i].is_misaligned
                    = FracLess(Frac(3, 20), FracAbs(ExactDrift(DriftEntries[i].campaign_id, now)))
           /\ Len(statements) = Len(MisalignedEntries)
           /\ \A i \in DOMAIN statements :
                /\ statements[i].campaign_id = MisalignedEntries[i].campaign_id
                /\ statements[i].kind =
                     IF FracLess(Frac(0, 1), ExactDrift(statements[i].campaign_id, now))
                     THEN "Over-allocated" ELSE "Under-allocated"

\* The mean of |past_drift| over the three windows before the current one.
ExactPastMean(c) ==
    LET past(w) == FracAbs(FracSub(ExactActual(c, now - 7 * w * TicksPerDay),
                                   ExactExpected(c)))
        total == FracAdd(FracAdd(past(1), past(2)), past(3))
    IN Frac(total.n, 3 * total.d)

ExactChange(c) == FracSub(FracAbs(ExactDrift(c, now)), ExactPastMean(c))

\* C14: for every active campaign compute_trend returns stable iff |change| <
\* 0.05, improving iff change <= -0.05 and worsening iff change >= 0.05, where
\* change = |current drift| - mean of |past_drift| over [now-14d, now-7d),
\* [now-21d, now-14d), [now-28d, now-21d) and each past_drift is that window's
\* actual share minus the current expected share; it never returns "new".
C14_Trend ==
    DriftCalled =>
        \A i \in DOMAIN DriftEntries :
            LET change == ExactChange(DriftEntries[i].campaign_id)
            IN DriftEntries[i].trend =
                 IF FracLess(FracAbs(change), Frac(1, 20)) THEN "stable"
                 ELSE IF FracLess(change, Frac(0, 1)) THEN "improving"
                 ELSE "worsening"

(***************************************************************************)
(* services/review.py.  A date is a day number; the names and titles of    *)
(* the report are the ids of the rows.                                     *)
(***************************************************************************)
MissionStatus == {"not_started", "in_progress", "blocked", "completed"}

ENERGY_VALUES == [green |-> 3, yellow |-> 2, red |-> 1]

\* ENERGY_LABELS.get(k, "yellow")
ENERGY_LABELS(k) ==
    IF k = 3 THEN "green" ELSE IF k = 2 THEN "yellow" ELSE IF k = 1 THEN "red" ELSE "yellow"

ReviewRow(a, campaign_id, cutoff) ==
    /\ CampaignOf(a.sortie_id) = campaign_id
    /\ a.created_at >= cutoff

blocks_this_week(campaign_id, cutoff) ==
    SumActual({a \in aars : ReviewRow(a, campaign_id, cutoff)})

\* x or 1
OrOne(x) == IF x # 0 THEN x ELSE 1

RECURSIVE SumSeq(_)
SumSeq(seq) == IF seq = <<>> THEN 0 ELSE Head(seq) + SumSeq(Tail(seq))

\* One entry of the drift summary; the rounded fields are in hundredths.
DriftSummaryEntry(campaign_id, blocks, total_target, total_actual) ==
    LET expected_share == FloatDivInts(campaigns[campaign_id].weekly_block_target,
                                       total_target)
        actual_share == ShareOrZero(blocks, total_actual)
        drift == FloatSub(actual_share, expected_share)
    IN [name |-> campaign_id,
        expected_share |-> PyRound(expected_share, 100),
        actual_share |-> PyRound(actual_share, 100),
        drift |-> PyRound(drift, 100),
        is_misaligned |-> Misaligned(drift)]

compute_drift_summary(cs, cutoff) ==
    LET total_target ==
            OrOne(SumSeq([i \in 1..Len(cs) |-> campaigns[cs[i]].weekly_block_target]))
        blocks == [i \in 1..Len(cs) |-> blocks_this_week(cs[i], cutoff)]
        total_actual == SumSeq(blocks)
    IN [i \in 1..Len(cs) |-> DriftSummaryEntry(cs[i], blocks[i], total_target, total_actual)]

\* round(blocks / target * 100) if target > 0 else 0
completion_pct(blocks, target) ==
    IF Positive(target) THEN PyRound(FloatMulInt(FloatDivInts(blocks, target), 100), 1) ELSE 0

ScoreboardEntry(campaign_id, cutoff) ==
    LET blocks == blocks_this_week(campaign_id, cutoff)
        target == campaigns[campaign_id].weekly_block_target
    IN [name |-> campaign_id,
        priority_rank |-> campaigns[campaign_id].priority_rank,
        blocks_completed |-> blocks,
        weekly_target |-> target,
        completion_pct |-> completion_pct(blocks, target)]

\* select(Mission).where(completed_at >= cutoff).where(completed_at.is_not(None))
CompletedMission(m, cutoff) ==
    missions[m].completed_at # NULL /\ missions[m].completed_at >= cutoff

\* select(Mission).where(created_at >= cutoff).where(status == in_progress)
StartedMission(m, cutoff) ==
    missions[m].created_at >= cutoff /\ missions[m].status = "in_progress"

NotYetListed_Always(m, completed_ids) == TRUE

\* m.id not in completed_ids
NotYetListed(m, completed_ids) == m \notin completed_ids

MovedEntry(m, old_status) ==
    [name |-> m, campaign_name |-> missions[m].campaign_id,
     old_status |-> old_status, new_status |-> missions[m].status]

missions_moved(cutoff) ==
    LET completed_missions == SetToSeq({m \in DOMAIN missions : CompletedMission(m, cutoff)})
        started_missions == SetToSeq({m \in DOMAIN missions : StartedMission(m, cutoff)})
        completed_ids == {completed_missions[i] : i \in 1..Len(completed_missions)}
        started == SelectSeq(started_missions, LAMBDA m : NotYetListed(m, completed_ids))
    IN [i \in 1..Len(completed_missions) |-> MovedEntry(completed_missions[i], "in_progress")]
       \o [i \in 1..Len(started) |-> MovedEntry(started[i], "not_started")]

StaleEnough_AtFive(days) == days >= 5

\* days > 5
StaleEnough(days) == days > 5

staleness_alerts(cs) ==
    LET stale == SelectSeq(cs, LAMBDA c : StaleEnough(compute_staleness(c)))
    IN [i \in 1..Len(stale) |-> [name |-> stale[i], days |-> compute_staleness(stale[i])]]

\* The check-ins with today - 7 <= date <= today, ordered by date.
CheckinRow_HalfOpen(ci, today) == ci.date > today - 7 /\ ci.date <= today

\* .where(date >= today - timedelta(days=7)).where(date <= today)
CheckinRow(ci, today) == ci.date >= today - 7 /\ ci.date <= today

WeekCheckins(today) ==
    LET rows == {ci \in checkins : CheckinRow(ci, today)}
        dates == SetToSeq({ci.date : ci \in rows})
    IN [i \in 1..Len(dates) |-> CHOOSE ci \in rows : ci.date = dates[i]]

energy_patterns(today) ==
    LET cis == WeekCheckins(today)
        total_energy == SumSeq([i \in 1..Len(cis) |-> ENERGY_VALUES[cis[i].energy_level]])
        avg_energy == IF cis # <<>> THEN FloatDivInts(total_energy, Len(cis)) ELSE FloatZero
    IN [checkins |-> Len(cis),
        daily |-> [i \in 1..Len(cis) |->
                      [date |-> cis[i].date, short_day |-> cis[i].date % 7,
                       level |-> cis[i].energy_level]],
        average |-> IF cis # <<>> THEN PyRound(avg_energy, 10) ELSE 0,
        average_label |-> IF cis # <<>> THEN ENERGY_LABELS(PyRound(avg_energy, 1))
                          ELSE "none"]

\* next_week_start <= target_date <= next_week_end
Upcoming(target_date, today) ==
    target_date # NULL /\ today + 1 <= target_date /\ target_date <= today + 8

RECURSIVE upcoming_targets(_, _)
upcoming_targets(cs, today) ==
    IF cs = <<>> THEN <<>>
    ELSE LET c == Head(cs)
             ms == SelectSeq(SetToSeq({m \in DOMAIN missions : missions[m].campaign_id = c}),
                             LAMBDA m : Upcoming(missions[m].target_date, today))
         IN (IF Upcoming(campaigns[c].target_date, today)
             THEN <<[type |-> "campaign", name |-> <<c>>,
                     target_date |-> campaigns[c].target_date]>>
             ELSE <<>>)
            \o [i \in 1..Len(ms) |->
                   [type |-> "mission", name |-> <<c, ms[i]>>,
                    target_date |-> missions[ms[i]].target_date]]
            \o upcoming_targets(Tail(cs), today)

BlockedRow(s) ==
    /\ campaigns[CampaignOf(s)].status = "active"
    /\ missions[sorties[s].mission_id].status = "blocked"

blocked_sorties ==
    LET rows == SetToSeq({s \in DOMAIN sorties : BlockedRow(s)})
    IN [i \in 1..Len(rows) |->
           [title |-> rows[i], mission_name |-> sorties[rows[i]].mission_id,
            campaign_name |-> CampaignOf(rows[i])]]

\* generate_weekly_review(session, today)
generate_weekly_review(today) ==
    LET cutoff == (today - 7) * TicksPerDay
        cs == ActiveByRank
    IN [date |-> today,
        week_ending |-> today,
        scoreboard |-> [i \in 1..Len(cs) |-> ScoreboardEntry(cs[i], cutoff)],
        missions_moved |-> missions_moved(cutoff),
        drift_summary |-> compute_drift_summary(cs, cutoff),
        staleness_alerts |-> staleness_alerts(cs),
        energy_patterns |-> energy_patterns(today),
        current_rankings |-> [i \in 1..Len(cs) |->
                                 [name |-> cs[i], rank |-> campaigns[cs[i]].priority_rank]],
        next_week_preview |-> [upcoming_targets |-> upcoming_targets(cs, today),
                               blocked_sorties |-> blocked_sorties]]

\* One line of the markdown report: its fixed text and the values put in it.
Line(text, nums, words) == [text |-> text, nums |-> nums, words |-> words]

Blank == Line("", <<>>, <<>>)

SectionLines_NoPlaceholder(items, placeholder) == items

\* The lines of a section: one per item, or the placeholder when it is empty.
SectionLines(items, placeholder) ==
    IF items # <<>> THEN items ELSE <<Line(placeholder, <<>>, <<>>)>>

\* f"{abs(d['drift']) * 100:.0f}"
DriftPercent(hundredths) == PyRound(FloatMulInt(FloatOfUnits(Abs(hundredths), 100), 100), 1)

\* The lines generate_weekly_review_markdown writes for the review data.
MarkdownLines(data) ==
    LET sb == data.scoreboard
        mm == data.missions_moved
        misaligned == SelectSeq(data.drift_summary, LAMBDA d : d.is_misaligned)
        sa == data.staleness_alerts
        ep == data.energy_patterns
        up == data.next_week_preview.upcoming_targets
        bl == data.next_week_preview.blocked_sorties
    IN <<Line("# Weekly Review", <<data.week_ending>>, <<>>), Blank,
         Line("## Scoreboard", <<>>, <<>>)>>
       \o SectionLines(
              [i \in 1..Len(sb) |->
                  Line("blocks", <<sb[i].name, sb[i].blocks_completed, sb[i].weekly_target,
                                   sb[i].blocks_completed,
                                   Max2(0, sb[i].weekly_target - sb[i].blocks_completed),
                                   sb[i].completion_pct>>, <<>>)],
              "- No active campaigns")
       \o <<Blank, Line("## Missions Moved", <<>>, <<>>)>>
       \o SectionLines(
              [i \in 1..Len(mm) |->
                  Line("moved", <<mm[i].campaign_name, mm[i].name>>,
                       <<mm[i].old_status, mm[i].new_status>>)],
              "- No mission status changes this week")
       \o <<Blank, Line("## Drift Summary", <<>>, <<>>)>>
       \o (IF data.drift_summary # <<>>
           THEN SectionLines(
                    [i \in 1..Len(misaligned) |->
                        Line("-allocated by", <<misaligned[i].name,
                                                DriftPercent(misaligned[i].drift)>>,
                             <<IF misaligned[i].drift > 0 THEN "over" ELSE "under">>)],
                    "- All campaigns within alignment thresholds")
           ELSE <<Line("- No drift data available", <<>>, <<>>)>>)
       \o <<Blank, Line("## Staleness Alerts", <<>>, <<>>)>>
       \o SectionLines(
              [i \in 1..Len(sa) |-> Line("untouched for", <<sa[i].name, sa[i].days>>, <<>>)],
              "- All campaigns active this week")
       \o <<Blank, Line("## Energy Patterns", <<>>, <<>>)>>
       \o (IF ep.checkins > 0
           THEN <<Line("days", [i \in 1..Len(ep.daily) |-> ep.daily[i].short_day], <<>>),
                  Line("levels", <<>>, [i \in 1..Len(ep.daily) |-> ep.daily[i].level]),
                  Line("- Average energy", <<ep.average>>, <<ep.average_label>>)>>
           ELSE <<Line("- No check-ins recorded this week", <<>>, <<>>)>>)
       \o <<Blank, Line("## Re-rank Your Campaigns", <<>>, <<>>),
            Line("Current priority order:", <<>>, <<>>)>>
       \o [i \in 1..Len(data.current_rankings) |->
              Line("rank", <<data.current_rankings[i].rank, data.current_rankings[i].name>>,
                   <<>>)]
       \o <<Blank, Line("## Next Week Preview", <<>>, <<>>)>>
       \o (IF up # <<>>
           THEN <<Line("**Upcoming deadlines:**", <<>>, <<>>)>>
                \o [i \in 1..Len(up) |-> Line("deadline", up[i].name \o <<up[i].target_date>>,
                                              <<>>)]
           ELSE <<>>)
       \o (IF bl # <<>>
           THEN <<Line("**Blocked sorties:**", <<>>, <<>>)>>
                \o [i \in 1..Len(bl) |->
                       Line("blocked", <<bl[i].campaign_name, bl[i].mission_name,
                                         bl[i].title>>, <<>>)]
           ELSE <<>>)
       \o (IF up = <<>> /\ bl = <<>>
           THEN <<Line("- No upcoming deadlines or blocked work", <<>>, <<>>)>>
           ELSE <<>>)
       \o <<Blank>>

\* generate_weekly_review_markdown(session, today)
generate_weekly_review_markdown(today) == MarkdownLines(generate_weekly_review(today))

(***************************************************************************)
(* services/health.py: the dashboard                                       *)
(***************************************************************************)
\* The first queued sortie of the campaign by sort_order, or NULL.
next_sortie(campaign_id) ==
    LET rows == StableSort(
                    SetToSeq({s \in DOMAIN sorties :
                                 /\ CampaignOf(s) = campaign_id
                                 /\ sorties[s].status = "queued"}),
                    {ab \in (DOMAIN sorties) \X (DOMAIN sorties) :
                         sorties[ab[1]].sort_order < sorties[ab[2]].sort_order})
    IN IF rows = <<>> THEN NULL ELSE Head(rows)

CampaignHealth(campaign_id) ==
    LET ms == {m \in DOMAIN missions : missions[m].campaign_id = campaign_id}
        velocity == compute_velocity(campaign_id)
    IN [campaign_id |-> campaign_id,
        priority_rank |-> campaigns[campaign_id].priority_rank,
        health |-> compute_campaign_health(campaign_id),
        velocity |-> velocity,
        weekly_block_target |-> campaigns[campaign_id].weekly_block_target,
        blocks_this_week |-> velocity,
        staleness_days |-> compute_staleness(campaign_id),
        missions_completed |-> Cardinality({m \in ms : missions[m].status = "completed"}),
        missions_total |-> Cardinality(ms),
        next_sortie_title |-> next_sortie(campaign_id)]

get_dashboard_data == [i \in 1..Len(ActiveByRank) |-> CampaignHealth(ActiveByRank[i])]

(***************************************************************************)
(* The weekly review over snapshots of two campaigns with one mission      *)
(* each, read in the middle of day ReviewDay.                              *)
(***************************************************************************)
ReviewDay == 30

ReviewCutoff == (ReviewDay - 7) * TicksPerDay

\* The ages at which the sortie of mission 1 was completed, if it was.
ReviewAges == {NULL, 5 * TicksPerDay, 6 * TicksPerDay - 1, 6 * TicksPerDay}

ReviewSortie(mission_id, age, t) ==
    [mission_id |-> mission_id, cognitive_load |-> "medium", estimated_blocks |-> 1,
     status |-> IF age = NULL THEN "queued" ELSE "completed", sort_order |-> 0,
     completed_at |-> IF age = NULL THEN NULL ELSE t - age]

ReviewCheckins ==
    {{},
     {[date |-> ReviewDay, energy_level |-> "green"]},
     {[date |-> ReviewDay - 8, energy_level |-> "green"],
      [date |-> ReviewDay - 7, energy_level |-> "red"],
      [date |-> ReviewDay, energy_level |-> "yellow"]},
     {[date |-> ReviewDay - 1, energy_level |-> "green"],
      [date |-> ReviewDay, energy_level |-> "yellow"],
      [date |-> ReviewDay + 1, energy_level |-> "red"]},
     {[date |-> ReviewDay - 7, energy_level |-> "green"],
      [date |-> ReviewDay - 3, energy_level |-> "green"],
      [date |-> ReviewDay, energy_level |-> "red"]}}

InitReview ==
    /\ now = ReviewDay * TicksPerDay + 1
    /\ \E st \in [CampaignIds -> BOOLEAN], target1 \in {0, 2},
          date1 \in {NULL, ReviewDay + 8} :
         campaigns = [c \in CampaignIds |->
             [status |-> IF st[c] THEN "active" ELSE IF c = 1 THEN "paused" ELSE "archived",
              priority_rank |-> 3 - c,
              weekly_block_target |-> IF c = 1 THEN target1 ELSE 2,
              target_date |-> IF c = 1 THEN date1 ELSE NULL]]
    /\ \E status1 \in MissionStatus,
          created1 \in {ReviewCutoff - 1, ReviewCutoff},
          completed1 \in {NULL, ReviewCutoff - 1, ReviewCutoff},
          status2 \in {"in_progress", "completed"},
          completed2 \in {NULL, now - 1} :
         missions = <<[campaign_id |-> 1, status |-> status1, created_at |-> created1,
                       completed_at |-> completed1, target_date |-> NULL],
                      [campaign_id |-> 2, status |-> status2,
                       created_at |-> ReviewCutoff + 1, completed_at |-> completed2,
                       target_date |-> ReviewDay + 1]>>
    /\ \E age1 \in ReviewAges, age2 \in {NULL, 1} :
         /\ sorties = <<ReviewSortie(1, age1, now), ReviewSortie(2, age2, now)>>
         /\ aars = {[id |-> s, sortie_id |-> s, actual_blocks |-> s,
                     created_at |-> sorties[s].completed_at] :
                    s \in {x \in 1..2 : sorties[x].status = "completed"}}
    /\ checkins \in ReviewCheckins
    /\ briefing = NoBriefing
    /\ obs = NoObs
    /\ urg = <<>>
    /\ calls = <<>>
    /\ inflight = <<>>

\* generate_weekly_review(session): today defaults to the date of the wall clock
GenerateWeeklyReview ==
    /\ calls = <<>>
    /\ LET today == now \div TicksPerDay
       IN calls' = <<[fn |-> "generate_weekly_review", arg |-> today,
                      result |-> generate_weekly_review(today)]>>
    /\ UNCHANGED <<campaigns, missions, sorties, aars, checkins, now, briefing, obs, urg, inflight>>

NextReview == GenerateWeeklyReview

SpecReview == InitReview /\ [][NextReview]_vars

(***************************************************************************)
(* Properties of the weekly review.                                        *)
(***************************************************************************)
ReviewCalled == calls # <<>> /\ calls[1].fn = "generate_weekly_review"

Review == calls[1].result

Entries(section) == {section[i] : i \in DOMAIN section}

\* The campaigns the entries of the per-campaign sections of a review name.
ReviewCampaigns(r) ==
    {e.name : e \in Entries(r.scoreboard) \cup Entries(r.drift_summary)
                    \cup Entries(r.staleness_alerts) \cup Entries(r.current_rankings)}
    \cup {e.name[1] : e \in Entries(r.next_week_preview.upcoming_targets)}
    \cup {e.campaign_name : e \in Entries(r.next_week_preview.blocked_sorties)}

\* C18: every entry of every section of generate_weekly_review (scoreboard,
\* missions_moved, drift_summary, staleness_alerts, current_rankings,
\* upcoming_targets, blocked_sorties) belongs to a campaign whose status is
\* active.
C18_OnlyActiveCampaigns ==
    ReviewCalled =>
        \A c \in ReviewCampaigns(Review)
                   \cup {e.campaign_name : e \in Entries(Review.missions_moved)} :
            campaigns[c].status = "active"

\* The staleness of campaign c in days at the wall clock.
DaysStale(c) ==
    IF CompletedStamps(c) = {} THEN 999
    ELSE (now - Max(CompletedStamps(c))) \div TicksPerDay

\* C19: generate_weekly_review lists a campaign in staleness_alerts iff it is
\* active and its staleness is strictly greater than 5 days, with days = its
\* staleness: last completed exactly 5 days ago is not listed, 6 days ago is
\* listed, never worked is listed with days = 999.
C19_StalenessAlerts ==
    ReviewCalled =>
        /\ {e.name : e \in Entries(Review.staleness_alerts)}
             = {c \in Active : DaysStale(c) > 5}
        /\ \A e \in Entries(Review.staleness_alerts) : e.days = DaysStale(e.name)
        /\ Len(Review.staleness_alerts) = Cardinality({c \in Active : DaysStale(c) > 5})

C19_Witness ==
    /\ ReviewCalled
    /\ \E c \in Active :
          /\ CompletedStamps(c) # {}
          /\ now - Max(CompletedStamps(c)) = 5 * TicksPerDay
          /\ \A e \in Entries(Review.staleness_alerts) : e.name # c
    /\ \E e \in Entries(Review.staleness_alerts) : e.days = 999

CompletedInWindow(m, cutoff) ==
    missions[m].completed_at # NULL /\ missions[m].completed_at >= cutoff

StartedInWindow(m, cutoff) ==
    missions[m].created_at >= cutoff /\ missions[m].status = "in_progress"

\* C20: missions_moved holds a mission iff its completed_at is at or after the
\* cutoff (midnight of today - 7 days) or it was created at or after the cutoff
\* and is in_progress; no mission is listed twice, and one completed in the
\* window is listed as completed, never also as started.
C20_MissionsMoved ==
    ReviewCalled =>
        LET cutoff == (calls[1].arg - 7) * TicksPerDay
            moved == Review.missions_moved
        IN /\ {e.name : e \in Entries(moved)}
                = {m \in DOMAIN missions :
                      CompletedInWindow(m, cutoff) \/ StartedInWindow(m, cutoff)}
           /\ \A i, j \in DOMAIN moved : moved[i].name = moved[j].name => i = j
           /\ \A e \in Entries(moved) :
                (e.old_status = "not_started") = ~CompletedInWindow(e.name, cutoff)

C20_Witness ==
    /\ ReviewCalled
    /\ \E m \in DOMAIN missions :
          /\ missions[m].completed_at = (calls[1].arg - 7) * TicksPerDay
          /\ StartedInWindow(m, (calls[1].arg - 7) * TicksPerDay)
          /\ \E e \in Entries(Review.missions_moved) : e.name = m

(***************************************************************************)
(* The entry points of the core called one after another on one snapshot   *)
(* while the wall clock moves on.  A call raises ZeroDivisionError when    *)
(* one of the divisions it carries out has the denominator 0.              *)
(***************************************************************************)
MaxTicks == 2

ZeroDivisionError(divisors) == \E d \in divisors : d = 0

\* compute_urgency_score divides by num_campaigns, once there is a campaign
BriefingDivisors ==
    IF ActiveCampaigns = {} THEN {} ELSE {Cardinality(ActiveCampaigns)}

\* compute_campaign_health divides by the target unless it is 0
HealthDivisors(campaign_id) ==
    IF campaigns[campaign_id].weekly_block_target = 0 THEN {}
    ELSE {campaigns[campaign_id].weekly_block_target}

WindowTotal(window_start, window_end) ==
    SumOver([c \in ActiveCampaigns |->
                blocks_for_campaign_in_window(c, window_start, window_end)],
            ActiveCampaigns)

\* compute_drift and, per campaign, compute_trend
DriftDivisors(t) ==
    IF ActiveCampaigns = {} THEN {}
    ELSE ShareDivisors(SumOver([c \in ActiveCampaigns |-> campaigns[c].weekly_block_target],
                               ActiveCampaigns))
         \cup UNION {ShareDivisors(WindowTotal(t - 7 * (w + 1) * TicksPerDay,
                                               t - 7 * w * TicksPerDay)) : w \in 0..3}
         \cup {3}

ReviewDivisors(today) ==
    LET cutoff == (today - 7) * TicksPerDay
        cs == ActiveByRank
        targets == [i \in 1..Len(cs) |-> campaigns[cs[i]].weekly_block_target]
    IN (IF cs = <<>> THEN {}
        ELSE {OrOne(SumSeq(targets))}
             \cup ShareDivisors(SumSeq([i \in 1..Len(cs) |-> blocks_this_week(cs[i], cutoff)]))
             \cup UNION {ShareDivisors(targets[i]) : i \in 1..Len(cs)})
       \cup (IF WeekCheckins(today) # <<>> THEN {Len(WeekCheckins(today))} ELSE {})

\* What a call hands back: the value returned, or the exception raised.
Outcome(divisors, value) ==
    IF ZeroDivisionError(divisors) THEN [raised |-> TRUE, value |-> <<>>]
    ELSE [raised |-> FALSE, value |-> value]

AfterReads_Expired(tables) == [tables EXCEPT ![5] = {}]

\* The tables after a call: the services run SELECTs only and never add,
\* delete or commit.
AfterReads(tables) == tables

Call(fn, arg, outcome) ==
    /\ Len(calls) < 2
    /\ calls' = Append(calls, [fn |-> fn, arg |-> arg, clock |-> now,
                               raised |-> outcome.raised, result |-> outcome.value])
    /\ LET after == AfterReads(<<campaigns, missions, sorties, aars, checkins>>)
       IN /\ campaigns' = after[1]
          /\ missions' = after[2]
          /\ sorties' = after[3]
          /\ aars' = after[4]
          /\ checkins' = after[5]
    /\ UNCHANGED <<now, briefing, obs, urg, inflight>>

CoreClock == 30 * TicksPerDay

CoreSortie(mission_id, status, age, t) ==
    [mission_id |-> mission_id, cognitive_load |-> "medium", estimated_blocks |-> 1,
     status |-> status, sort_order |-> mission_id,
     completed_at |-> IF age = NULL THEN NULL ELSE t - age]

InitCore ==
    /\ now = CoreClock
    /\ \E st \in [CampaignIds -> BOOLEAN], target1 \in {0, 2}, target2 \in {0, 2} :
         campaigns = [c \in CampaignIds |->
             [status |-> IF st[c] THEN "active" ELSE "paused",
              priority_rank |-> c,
              weekly_block_target |-> IF c = 1 THEN target1 ELSE target2,
              target_date |-> NULL]]
    /\ missions = <<[campaign_id |-> 1, status |-> "in_progress",
                     created_at |-> now - 1, completed_at |-> NULL,
                     target_date |-> now \div TicksPerDay + 2],
                    [campaign_id |-> 2, status |-> "blocked",
                     created_at |-> now - 10 * TicksPerDay, completed_at |-> NULL,
                     target_date |-> NULL]>>
    /\ \E age1 \in {NULL, 1, 6 * TicksPerDay - 1} :
         /\ sorties = <<CoreSortie(1, IF age1 = NULL THEN "queued" ELSE "completed",
                                   age1, now),
                        CoreSortie(2, "queued", NULL, now)>>
         /\ aars = IF age1 = NULL THEN {}
                   ELSE {[id |-> 1, sortie_id |-> 1, actual_blocks |-> 1,
                          created_at |-> now - age1]}
    /\ checkins \in {{}, {[date |-> now \div TicksPerDay, energy_level |-> "green"]}}
    /\ briefing = NoBriefing
    /\ obs = NoObs
    /\ urg = <<>>
    /\ calls = <<>>
    /\ inflight = <<>>

\* The wall clock moves on by a tick.
Tick ==
    /\ now < CoreClock + MaxTicks
    /\ now' = now + 1
    /\ UNCHANGED <<campaigns, missions, sorties, aars, checkins, briefing, obs, urg, calls, inflight>>

\* generate_briefing(session, energy, available_blocks)
BriefingCall ==
    Call("generate_briefing", 0,
         Outcome(BriefingDivisors, generate_briefing("green", MaxBlocks)))

\* compute_campaign_health(session, campaign)
HealthCall(campaign_id) ==
    Call("compute_campaign_health", campaign_id,
         Outcome(HealthDivisors(campaign_id), compute_campaign_health(campaign_id)))

\* get_dashboard_data(session)
DashboardCall ==
    Call("get_dashboard_data", 0,
         Outcome(UNION {HealthDivisors(c) : c \in ActiveCampaigns}, get_dashboard_data))

\* compute_drift(session, now=CoreClock)
DriftCall ==
    Call("compute_drift", CoreClock,
         Outcome(DriftDivisors(CoreClock), compute_drift(CoreClock, now \div TicksPerDay)))

\* generate_weekly_review(session, today=the day of CoreClock)
ReviewCall ==
    Call("generate_weekly_review", CoreClock \div TicksPerDay,
         Outcome(ReviewDivisors(CoreClock \div TicksPerDay),
                 generate_weekly_review(CoreClock \div TicksPerDay)))

\* generate_weekly_review_markdown(session, today=the day of CoreClock)
MarkdownCall ==
    Call("generate_weekly_review_markdown", CoreClock \div TicksPerDay,
         Outcome(ReviewDivisors(CoreClock \div TicksPerDay),
                 generate_weekly_review_markdown(CoreClock \div TicksPerDay)))

NextCore ==
    \/ Tick
    \/ BriefingCall
    \/ \E c \in CampaignIds : HealthCall(c)
    \/ DashboardCall
    \/ DriftCall
    \/ ReviewCall
    \/ MarkdownCall

SpecCore == InitCore /\ [][NextCore]_vars


TimeSensitiveEntryPoints ==
    {"generate_briefing", "get_dashboard_data", "compute_drift", "generate_weekly_review"}

\* C15: two invocations of generate_briefing, get_dashboard_data,
\* compute_drift or generate_weekly_review on the same snapshot with the
\* same supplied now/today return identical output, whatever the wall-clock
\* time at which each of them runs.
C15_Deterministic ==
    \A i, j \in DOMAIN calls :
        (/\ calls[i].fn \in TimeSensitiveEntryPoints
         /\ calls[i].fn = calls[j].fn
         /\ calls[i].arg = calls[j].arg)
        => calls[i].result = calls[j].result


ReportEntryPoints ==
    TimeSensitiveEntryPoints \cup {"generate_weekly_review_markdown"}

\* C16: a call of generate_briefing, get_dashboard_data, compute_drift,
\* generate_weekly_review or generate_weekly_review_markdown leaves every
\* campaign, mission, sortie, AAR and check-in record exactly as it was.
C16_StoreUnchanged ==
    [][(/\ Len(calls') = Len(calls) + 1
        /\ calls'[Len(calls')].fn \in ReportEntryPoints)
       => UNCHANGED <<campaigns, missions, sorties, aars, checkins>>]_vars

\* Each of the five has been called on a snapshot with check-ins, AARs and an
\* active campaign.
C16_Witness ==
    /\ Len(calls) = 2
    /\ calls[1].fn = "generate_weekly_review_markdown"
    /\ calls[2].fn = "generate_briefing"
    /\ calls[2].result # <<>>
    /\ checkins # {}
    /\ aars # {}

CoreWeekTotal == TotalLogged(Active, CoreClock - 7 * TicksPerDay, CoreClock)

ReviewWeekTotal ==
    LET cs == ActiveByRank
    IN SumSeq([i \in 1..Len(cs) |->
                  blocks_this_week(cs[i], (CoreClock \div TicksPerDay - 7) * TicksPerDay)])

NoCampaignSections(r) ==
    /\ r.scoreboard = <<>>
    /\ r.drift_summary = <<>>
    /\ r.staleness_alerts = <<>>
    /\ r.current_rankings = <<>>
    /\ r.next_week_preview.upcoming_targets = <<>>
    /\ r.next_week_preview.blocked_sorties = <<>>

ZeroWhenNoDenominator(call) ==
    /\ call.fn = "compute_drift" =>
           \A d \in Entries(call.result.campaigns) :
               /\ TotalTarget(Active) = 0 => d.expected_share = 0
               /\ CoreWeekTotal = 0 => d.actual_share = 0
    /\ call.fn = "generate_weekly_review" =>
           /\ \A e \in Entries(call.result.scoreboard) :
                  e.weekly_target = 0 => e.completion_pct = 0
           /\ \A d \in Entries(call.result.drift_summary) :
                  /\ TotalTarget(Active) = 0 => d.expected_share = 0
                  /\ ReviewWeekTotal = 0 => d.actual_share = 0
           /\ call.result.energy_patterns.checkins = 0 =>
                  call.result.energy_patterns.average = 0

EmptyWhenNoCampaign(call) ==
    Active = {} =>
        /\ call.fn = "generate_briefing" => call.result = <<>>
        /\ call.fn = "compute_drift" =>
               /\ call.result.campaigns = <<>>
               /\ call.result.misalignment_statements = <<>>
               /\ call.result.total_blocks_this_week = 0
        /\ call.fn = "generate_weekly_review" => NoCampaignSections(call.result)

WindowCheckins == {ci \in checkins : ReviewDay - 7 <= ci.date /\ ci.date <= ReviewDay}

RECURSIVE EnergySum(_)
EnergySum(cis) ==
    IF cis = {} THEN 0
    ELSE LET ci == CHOOSE x \in cis : TRUE
         IN (IF ci.energy_level = "green" THEN 3
             ELSE IF ci.energy_level = "yellow" THEN 2 ELSE 1)
            + EnergySum(cis \ {ci})

\* k is an integer nearest to total / n.
NearestInteger(k, total, n) == 2 * Abs(total - k * n) <= n

LabelOf(k) == IF k = 3 THEN "green" ELSE IF k = 2 THEN "yellow" ELSE "red"

\* C21: the energy section counts exactly the check-ins with
\* today - 7 <= date <= today; average_label is "none" iff there is none,
\* and otherwise the label (3 green, 2 yellow, 1 red) of the average of the
\* energy values rounded to the nearest integer.
C21_EnergyPatterns ==
    ReviewCalled =>
        LET ep == Review.energy_patterns
        IN /\ ep.checkins = Cardinality(WindowCheckins)
           /\ {d.date : d \in Entries(ep.daily)} = {ci.date : ci \in WindowCheckins}
           /\ ep.average_label = "none" <=> WindowCheckins = {}
           /\ WindowCheckins # {} =>
                  \E k \in 1..3 :
                      /\ NearestInteger(k, EnergySum(WindowCheckins),
                                        Cardinality(WindowCheckins))
                      /\ ep.average_label = LabelOf(k)

\* A check-in dated today - 7 is counted and one dated today - 8 is not; the
\* average of red and yellow is 1.5.
C21_Witness ==
    /\ ReviewCalled
    /\ Review.energy_patterns.checkins = 2
    /\ \E ci \in checkins : ci.date = ReviewDay - 8
    /\ \E ci \in WindowCheckins : ci.date = ReviewDay - 7
    /\ Review.energy_patterns.average_label = "yellow"


(***************************************************************************)
(* The markdown rendering of the weekly review over the same snapshots.    *)
(***************************************************************************)
\* generate_weekly_review_markdown(session): today defaults to the date of
\* the wall clock
GenerateWeeklyReviewMarkdown ==
    /\ calls = <<>>
    /\ LET today == now \div TicksPerDay
       IN calls' = <<[fn |-> "generate_weekly_review_markdown", arg |-> today,
                      result |-> generate_weekly_review_markdown(today)]>>
    /\ UNCHANGED <<campaigns, missions, sorties, aars, checkins, now, briefing, obs, urg, inflight>>

NextMarkdown == GenerateWeeklyReviewMarkdown

SpecMarkdown == InitReview /\ [][NextMarkdown]_vars

MarkdownCalled == calls # <<>> /\ calls[1].fn = "generate_weekly_review_markdown"

Markdown == calls[1].result

SectionHeaders ==
    <<"## Scoreboard", "## Missions Moved", "## Drift Summary", "## Staleness Alerts",
      "## Energy Patterns", "## Re-rank Your Campaigns", "## Next Week Preview">>

\* The headers of the rendered lines, in the order in which they appear.
RenderedHeaders ==
    LET hs == SelectSeq(Markdown, LAMBDA l : l.text \in Entries(SectionHeaders))
    IN [i \in 1..Len(hs) |-> hs[i].text]

\* The rendered lines from header k up to the next header (or the end).
SectionOf(k) ==
    LET from == CHOOSE i \in DOMAIN Markdown : Markdown[i].text = SectionHeaders[k]
        to == IF k = Len(SectionHeaders) THEN Len(Markdown) + 1
              ELSE CHOOSE i \in DOMAIN Markdown : Markdown[i].text = SectionHeaders[k + 1]
    IN {Markdown[i] : i \in (from + 1)..(to - 1)}

HasPlaceholder(k, text) == \E l \in SectionOf(k) : l.text = text

\* The review data the rendering is made from.
ReviewData == generate_weekly_review(ReviewDay)

NoMisaligned == \A d \in Entries(ReviewData.drift_summary) : ~d.is_misaligned

OtherPlaceholders ==
    /\ HasPlaceholder(1, "- No active campaigns") <=> ReviewData.scoreboard = <<>>
    /\ HasPlaceholder(2, "- No mission status changes this week")
           <=> ReviewData.missions_moved = <<>>
    /\ HasPlaceholder(4, "- All campaigns active this week")
           <=> ReviewData.staleness_alerts = <<>>
    /\ HasPlaceholder(5, "- No check-ins recorded this week")
           <=> ReviewData.energy_patterns.checkins = 0
    /\ HasPlaceholder(7, "- No upcoming deadlines or blocked work")
           <=> (/\ ReviewData.next_week_preview.upcoming_targets = <<>>
                /\ ReviewData.next_week_preview.blocked_sorties = <<>>)

\* C22 as stated: the seven headers once each in fixed order, and each empty
\* section's placeholder, "All campaigns within alignment thresholds"
\* whenever no campaign is misaligned.
C22_Original ==
    MarkdownCalled =>
        /\ RenderedHeaders = SectionHeaders
        /\ OtherPlaceholders
        /\ NoMisaligned => HasPlaceholder(3, "- All campaigns within alignment thresholds")

\* C22: the seven headers are rendered once each in fixed order; a section
\* shows its placeholder exactly when it is empty; the drift section shows
\* "All campaigns within alignment thresholds" exactly when there is drift
\* data and no campaign is misaligned, and "No drift data available" exactly
\* when there is no active campaign.
C22_Placeholders ==
    MarkdownCalled =>
        /\ RenderedHeaders = SectionHeaders
        /\ OtherPlaceholders
        /\ HasPlaceholder(3, "- All campaigns within alignment thresholds")
               <=> (ReviewData.drift_summary # <<>> /\ NoMisaligned)
        /\ HasPlaceholder(3, "- No drift data available")
               <=> ReviewData.drift_summary = <<>>

\* A rendering with active campaigns none of which is misaligned, no mission
\* moved, no staleness alert and no check-in.
C22_Witness ==
    /\ MarkdownCalled
    /\ ReviewData.drift_summary # <<>>
    /\ NoMisaligned
    /\ ReviewData.missions_moved = <<>>
    /\ ReviewData.staleness_alerts = <<>>
    /\ ReviewData.energy_patterns.checkins = 0
    /\ HasPlaceholder(3, "- All campaigns within alignment thresholds")


(***************************************************************************)
(* routers/operations.py: the daily check-in                               *)
(***************************************************************************)
MaxRequests == 3

CheckinDates == {1, 2}

\* The bodies of a POST /checkin (DailyCheckInCreate).
CheckinRequests ==
    [date : CheckinDates, energy_level : {"green", "red"}, available_blocks : {1, 4},
     focus_note : {NULL, 7}]

CheckinFields == {"date", "energy_level", "available_blocks", "focus_note"}

\* select(DailyCheckIn).where(date == d).first(): the row inserted first,
\* or None
ExistingCheckin(d) ==
    IF \E ci \in checkins : ci.date = d
    THEN [found |-> TRUE,
          row |-> CHOOSE ci \in checkins :
                      ci.date = d /\ \A o \in checkins : o.date = d => ci.id <= o.id]
    ELSE [found |-> FALSE]

\* uuid4(): an id no record has
FreshCheckinId == IF checkins = {} THEN 1 ELSE Max({ci.id : ci \in checkins}) + 1

\* DailyCheckIn(**checkin.model_dump()); add; commit
InsertedCheckin(request) ==
    [id |-> FreshCheckinId, date |-> request.date, energy_level |-> request.energy_level,
     available_blocks |-> request.available_blocks, focus_note |-> request.focus_note]

\* setattr(existing, key, value) for every key; add; commit: the UPDATE
\* writes the columns whose value differs from the one the session loaded.
UpdatedCheckin(row, loaded, request) ==
    [f \in DOMAIN row |->
        IF f \in CheckinFields /\ request[f] # loaded[f] THEN request[f] ELSE row[f]]

FoundExisting_Never(existing) == FALSE

\* if existing:
FoundExisting(existing) == existing.found

\* The table after the handler, which has read `existing`, has committed.
CheckinsAfter(existing, request) ==
    IF FoundExisting(existing)
    THEN {IF ci.id = existing.row.id THEN UpdatedCheckin(ci, existing.row, request)
          ELSE ci : ci \in checkins}
    ELSE checkins \cup {InsertedCheckin(request)}

\* The record the handler returns after session.refresh.
CheckinReturned(existing, request) ==
    IF FoundExisting(existing)
    THEN CHOOSE ci \in CheckinsAfter(existing, request) : ci.id = existing.row.id
    ELSE InsertedCheckin(request)

NoTables ==
    /\ campaigns = <<>>
    /\ missions = <<>>
    /\ sorties = <<>>
    /\ aars = {}
    /\ briefing = NoBriefing
    /\ obs = NoObs
    /\ urg = <<>>

InitCheckin ==
    /\ NoTables
    /\ now = 0
    /\ checkins = {}
    /\ calls = <<>>
    /\ inflight = <<>>

\* POST /checkin handled from its select to its commit with no other request
\* in between.
CreateCheckin(request) ==
    /\ Len(calls) < MaxRequests
    /\ LET existing == ExistingCheckin(request.date)
       IN /\ checkins' = CheckinsAfter(existing, request)
          /\ calls' = Append(calls, [fn |-> "create_checkin", arg |-> request,
                                     status |-> 201,
                                     result |-> CheckinReturned(existing, request)])
    /\ UNCHANGED <<campaigns, missions, sorties, aars, now, briefing, obs, urg, inflight>>

NextCheckin == \E request \in CheckinRequests : CreateCheckin(request)

SpecCheckin == InitCheckin /\ [][NextCheckin]_vars

OnDate(rows, d) == {ci \in rows : ci.date = d}

OnePerDate(rows) == \A ci \in rows : Cardinality(OnDate(rows, ci.date)) <= 1

RequestOf(row) == [f \in CheckinFields |-> row[f]]

\* C23: a create_checkin request for a date that has a record updates that
\* record in place (same id, the request's fields) and adds none; a request
\* for a date with no record adds exactly one record; the records of other
\* dates are unchanged; so at most one record exists per date.
C23_UpsertByDate ==
    [][Len(calls') = Len(calls) + 1 =>
         LET request == calls'[Len(calls')].arg
             before == OnDate(checkins, request.date)
             after == OnDate(checkins', request.date)
         IN /\ checkins' \ after = checkins \ before
            /\ Cardinality(after) = 1
            /\ \A ci \in after : RequestOf(ci) = request
            /\ \A ci \in after : calls'[Len(calls')].result = ci
            /\ before # {} => {ci.id : ci \in after} = {ci.id : ci \in before}
            /\ before = {} => \A ci \in after : \A o \in checkins : o.id # ci.id
            /\ OnePerDate(checkins')]_vars

\* Three requests, two of them for the same date: two records.
C23_Witness ==
    /\ Len(calls) = 3
    /\ calls[1].arg.date = calls[3].arg.date
    /\ calls[1].arg.date # calls[2].arg.date
    /\ calls[1].arg # calls[3].arg
    /\ calls[3].result.id = calls[1].result.id
    /\ Cardinality(checkins) = 2


(***************************************************************************)
(* Two POST /checkin requests for one date, each in its own session        *)
(* (database.py get_session), their steps interleaved.  A handler reads    *)
(* with its select and writes with its commit.                             *)
(***************************************************************************)
Sessions == {1, 2}

Idle == [pc |-> "idle"]

InitCheckinConcurrent ==
    /\ NoTables
    /\ now = 0
    /\ checkins \in {{},
                     {[id |-> 1, date |-> 1, energy_level |-> "yellow", available_blocks |-> 2,
                       focus_note |-> NULL]},
                     {[id |-> 1, date |-> 2, energy_level |-> "yellow", available_blocks |-> 2,
                       focus_note |-> NULL]}}
    /\ calls = <<>>
    /\ inflight = [s \in Sessions |-> Idle]

\* session.exec(select(DailyCheckIn).where(date == checkin.date)).first()
SelectCheckin(s, request) ==
    /\ inflight[s].pc = "idle"
    /\ request.date = 1
    /\ inflight' = [inflight EXCEPT ![s] = [pc |-> "selected", request |-> request,
                                            existing |-> ExistingCheckin(request.date)]]
    /\ UNCHANGED <<campaigns, missions, sorties, aars, checkins, now, briefing, obs, urg, calls>>

\* the rest of the handler: setattr or DailyCheckIn(...), add, commit, refresh
CommitCheckin(s) ==
    /\ inflight[s].pc = "selected"
    /\ checkins' = CheckinsAfter(inflight[s].existing, inflight[s].request)
    /\ calls' = Append(calls, [fn |-> "create_checkin", arg |-> inflight[s].request,
                               status |-> 201,
                               result |-> CheckinReturned(inflight[s].existing,
                                                          inflight[s].request)])
    /\ inflight' = [inflight EXCEPT ![s] = [pc |-> "done"]]
    /\ UNCHANGED <<campaigns, missions, sorties, aars, now, briefing, obs, urg>>

NextCheckinConcurrent ==
    \/ \E s \in Sessions, request \in CheckinRequests : SelectCheckin(s, request)
    \/ \E s \in Sessions : CommitCheckin(s)

SpecCheckinConcurrent == InitCheckinConcurrent /\ [][NextCheckinConcurrent]_vars

\* C30: with two create_checkin requests for the same date running
\* concurrently, their selects and commits interleaved, the store has at
\* most one DailyCheckIn record for that date.
C30_OnePerDateConcurrent == \A d \in CheckinDates : Cardinality(OnDate(checkins, d)) <= 1


(***************************************************************************)
(* routers/sorties.py: the sortie API on a store of two campaigns with one *)
(* mission each.  Every handler runs in one transaction and appends what   *)
(* it answered to calls.                                                   *)
(***************************************************************************)
MaxSortieCalls == 3

AAROutcome == {"completed", "partial", "blocked", "pivoted"}

\* the ids a request can name: a sortie of the store, or none of its rows
ApiSortieIds == {1, 2}
UnknownMission == 3

ApiSortie(mission_id, status, started_at, completed_at) ==
    [mission_id |-> mission_id, cognitive_load |-> "medium", estimated_blocks |-> 1,
     status |-> status, sort_order |-> 0,
     started_at |-> started_at, completed_at |-> completed_at]

\* One sortie in each state of its lifecycle, as the handlers leave it.
InitSorties ==
    /\ now = CoreClock
    /\ campaigns = [c \in CampaignIds |->
                      [status |-> "active", priority_rank |-> c, weekly_block_target |-> 2,
                       target_date |-> NULL]]
    /\ missions = [m \in MissionIds |-> [campaign_id |-> m]]
    /\ sorties \in {<<ApiSortie(1, "queued", NULL, NULL)>>,
                    <<ApiSortie(1, "active", now - 1, NULL)>>,
                    <<ApiSortie(1, "completed", now - 2, now - 1)>>,
                    <<ApiSortie(1, "abandoned", NULL, NULL)>>}
    /\ aars = {}
    /\ checkins = {}
    /\ briefing = NoBriefing
    /\ obs = NoObs
    /\ urg = <<>>
    /\ calls = <<>>
    /\ inflight = <<>>

\* session.get(Sortie, sortie_id) found a row
SortieFound(sortie_id) == sortie_id \in DOMAIN sorties

\* session.get(Mission, mission_id) found a row
MissionFound(mission_id) == mission_id \in DOMAIN missions

\* A handler answered: the store it committed and the status of its response.
\* The clock has moved on by the next request.
Answer(fn, arg, body, status, sorties_after, aars_after) ==
    /\ Len(calls) < MaxSortieCalls
    /\ sorties' = sorties_after
    /\ aars' = aars_after
    /\ calls' = Append(calls, [fn |-> fn, arg |-> arg, body |-> body, status |-> status])
    /\ now' = now + 1
    /\ UNCHANGED <<campaigns, missions, checkins, briefing, obs, urg, inflight>>

\* POST /sorties
create_sortie(sortie_in) ==
    /\ Len(sorties) + 1 \in ApiSortieIds
    /\ IF ~MissionFound(sortie_in.mission_id)
       THEN Answer("create_sortie", NULL, sortie_in, 404, sorties, aars)
       ELSE Answer("create_sortie", NULL, sortie_in, 201,
                   Append(sorties, ApiSortie(sortie_in.mission_id, "queued", NULL, NULL)),
                   aars)

\* for key, value in update_data.items(): setattr(sortie, key, value)
SetAttrs(row, update_data) ==
    [k \in DOMAIN row |-> IF k \in DOMAIN update_data THEN update_data[k] ELSE row[k]]

\* PUT /sorties/{sortie_id}
update_sortie(sortie_id, sortie_in) ==
    IF ~SortieFound(sortie_id)
    THEN Answer("update_sortie", sortie_id, sortie_in, 404, sorties, aars)
    ELSE Answer("update_sortie", sortie_id, sortie_in, 200,
                [sorties EXCEPT ![sortie_id] = SetAttrs(@, sortie_in)], aars)

\* the body of the loop of bulk_update_sorties
BulkUpdated(row, status, t) ==
    [row EXCEPT !.status = status,
                !.completed_at = IF status = "completed" THEN t ELSE @]

\* PUT /sorties/bulk
bulk_update_sorties(ids, status) ==
    Answer("bulk_update_sorties", ids, status, 200,
           [s \in DOMAIN sorties |->
               IF s \in ids THEN BulkUpdated(sorties[s], status, now) ELSE sorties[s]],
           aars)

\* PUT /sorties/{sortie_id}/move
move_sortie(sortie_id, new_mission_id) ==
    IF ~SortieFound(sortie_id) \/ ~MissionFound(new_mission_id)
    THEN Answer("move_sortie", sortie_id, new_mission_id, 404, sorties, aars)
    ELSE Answer("move_sortie", sortie_id, new_mission_id, 200,
                [sorties EXCEPT ![sortie_id].mission_id = new_mission_id], aars)

Startable_Always(row) == TRUE

\* if sortie.status != SortieStatus.queued: raise HTTPException(status_code=400)
Startable(row) == row.status = "queued"

\* PUT /sorties/{sortie_id}/start
start_sortie(sortie_id) ==
    IF ~SortieFound(sortie_id)
    THEN Answer("start_sortie", sortie_id, NULL, 404, sorties, aars)
    ELSE IF ~Startable(sorties[sortie_id])
    THEN Answer("start_sortie", sortie_id, NULL, 400, sorties, aars)
    ELSE Answer("start_sortie", sortie_id, NULL, 200,
                [sorties EXCEPT ![sortie_id].status = "active",
                                ![sortie_id].started_at = now], aars)

\* AAR(sortie_id=sortie.id, energy_before=..., ..., notes=...)
NewAAR(sortie_id, aar_data, t) ==
    [id |-> Cardinality(aars) + 1, sortie_id |-> sortie_id,
     energy_before |-> aar_data.energy_before, energy_after |-> aar_data.energy_after,
     outcome |-> aar_data.outcome, actual_blocks |-> aar_data.actual_blocks,
     notes |-> aar_data.notes, created_at |-> t]

\* if aar_data.outcome.value == "completed": sortie.status = completed;
\* otherwise the status is not assigned
StatusAfterOutcome(status, outcome) ==
    IF outcome = "completed" THEN "completed" ELSE status

\* PUT /sorties/{sortie_id}/complete
complete_sortie(sortie_id, aar_data) ==
    IF ~SortieFound(sortie_id)
    THEN Answer("complete_sortie", sortie_id, aar_data, 404, sorties, aars)
    ELSE Answer("complete_sortie", sortie_id, aar_data, 200,
                [sorties EXCEPT
                   ![sortie_id].status = StatusAfterOutcome(@, aar_data.outcome),
                   ![sortie_id].completed_at = now],
                aars \cup {NewAAR(sortie_id, aar_data, now)})

\* DELETE /sorties/{sortie_id}
delete_sortie(sortie_id) ==
    IF ~SortieFound(sortie_id)
    THEN Answer("delete_sortie", sortie_id, NULL, 404, sorties, aars)
    ELSE Answer("delete_sortie", sortie_id, NULL, 200,
                [sorties EXCEPT ![sortie_id].status = "abandoned"], aars)

\* The request bodies of the model.
SortieCreates == {[mission_id |-> m] : m \in {1, UnknownMission}}
SortieUpdates == {[status |-> "queued"], [status |-> "completed"], [sort_order |-> 1]}
BulkIds == {{1}, {1, 2}}
BulkStatuses == {"completed", "abandoned"}
SortieCompleteRequests ==
    {[outcome |-> "completed", energy_before |-> "green", energy_after |-> "yellow",
      actual_blocks |-> 2, notes |-> NULL],
     [outcome |-> "partial", energy_before |-> "green", energy_after |-> "red",
      actual_blocks |-> 1, notes |-> 7],
     [outcome |-> "blocked", energy_before |-> "yellow", energy_after |-> "red",
      actual_blocks |-> 1, notes |-> NULL],
     [outcome |-> "pivoted", energy_before |-> "red", energy_after |-> "green",
      actual_blocks |-> 2, notes |-> 7]}

NextSorties ==
    \/ \E sortie_in \in SortieCreates : create_sortie(sortie_in)
    \/ \E id \in ApiSortieIds, sortie_in \in SortieUpdates : update_sortie(id, sortie_in)
    \/ \E ids \in BulkIds, st \in BulkStatuses : bulk_update_sorties(ids, st)
    \/ \E id \in ApiSortieIds, m \in {2, UnknownMission} : move_sortie(id, m)
    \/ \E id \in ApiSortieIds : start_sortie(id)
    \/ \E id \in ApiSortieIds, aar_data \in SortieCompleteRequests : complete_sortie(id, aar_data)
    \/ \E id \in ApiSortieIds : delete_sortie(id)

SpecSorties == InitSorties /\ [][NextSorties]_vars

\* the call a step has just answered
Answered(fn, arg) ==
    /\ Len(calls') = Len(calls) + 1
    /\ calls'[Len(calls')].fn = fn
    /\ calls'[Len(calls')].arg = arg

AnsweredStatus == calls'[Len(calls')].status

OtherSortiesSame(id) ==
    /\ DOMAIN sorties' = DOMAIN sorties
    /\ \A s \in DOMAIN sorties : s # id => sorties'[s] = sorties[s]

StartContract(id) ==
    IF id \notin DOMAIN sorties
    THEN AnsweredStatus = 404 /\ sorties' = sorties /\ aars' = aars
    ELSE /\ OtherSortiesSame(id)
         /\ aars' = aars
         /\ IF sorties[id].status = "queued"
            THEN /\ AnsweredStatus = 200
                 /\ sorties'[id] = [sorties[id] EXCEPT !.status = "active", !.started_at = now]
            ELSE /\ AnsweredStatus = 400
                 /\ sorties'[id] = sorties[id]

StartedBefore(id) ==
    \E i \in 1..Len(calls) :
        calls[i].fn = "start_sortie" /\ calls[i].arg = id /\ calls[i].status = 200

C24_Original ==
    [][\A id \in ApiSortieIds :
          Answered("start_sortie", id) =>
              /\ StartContract(id)
              /\ AnsweredStatus = 200 => ~StartedBefore(id)]_vars

\* C24: start_sortie answers 404 on an unknown id and changes nothing; on a
\* sortie that is not queued it answers 400 and leaves the sortie as it was;
\* on a queued sortie it answers 200, sets the status to active and
\* started_at to the current time.  A sortie that was started is started
\* again only after another operation has set its status back to queued.
C24_StartSortie ==
    [][\A id \in ApiSortieIds :
          Answered("start_sortie", id) =>
              /\ StartContract(id)
              /\ (AnsweredStatus = 200 /\ StartedBefore(id)) =>
                    \E i \in 1..Len(calls) :
                        /\ calls[i].fn \in {"update_sortie", "bulk_update_sorties"}
                        /\ \E j \in 1..(i - 1) :
                              calls[j].fn = "start_sortie" /\ calls[j].arg = id
                              /\ calls[j].status = 200]_vars

C24_Witness ==
    /\ Len(calls) = 3
    /\ \A i \in 1..3 : calls[i].fn = "start_sortie"
    /\ <<calls[1].arg, calls[1].status>> = <<1, 200>>
    /\ <<calls[2].arg, calls[2].status>> = <<1, 400>>
    /\ <<calls[3].arg, calls[3].status>> = <<2, 404>>
    /\ sorties[1].status = "active"
    /\ sorties[1].started_at # NULL

CompleteContract(id, aar_data) ==
    /\ AnsweredStatus = 200
    /\ \E a \in aars' \ aars :
          /\ aars' = aars \cup {a}
          /\ a.sortie_id = id
          /\ a.outcome = aar_data.outcome
          /\ a.energy_before = aar_data.energy_before
          /\ a.energy_after = aar_data.energy_after
          /\ a.actual_blocks = aar_data.actual_blocks
          /\ a.notes = aar_data.notes
    /\ sorties'[id].completed_at = now
    /\ sorties'[id].status = IF aar_data.outcome = "completed" THEN "completed" ELSE "active"

\* C28: complete_sortie on an existing sortie adds exactly one AAR for it
\* with the request's outcome, energies, actual_blocks and notes, sets its
\* completed_at, and leaves it completed if the outcome is completed and
\* active for any other outcome, whatever its status was before.
C28_CompleteSortie ==
    [][\A id \in DOMAIN sorties, aar_data \in SortieCompleteRequests :
          (Answered("complete_sortie", id) /\ calls'[Len(calls')].body = aar_data)
              => CompleteContract(id, aar_data)]_vars

\* C29: after any sequence of sortie API operations, every completed
\* sortie has a completed_at and is a row of compute_staleness of its
\* campaign.
C29_CompletedHasStamp ==
    \A s \in DOMAIN sorties :
        sorties[s].status = "completed" =>
            /\ sorties[s].completed_at # NULL
            /\ StalenessRow(s, CampaignOf(s))
            /\ compute_staleness(CampaignOf(s)) # STALENESS_SENTINEL

(***************************************************************************)
(* main.py: APIKeyMiddleware in front of the routers.  A path is the       *)
(* sequence of its segments, "/api/v1/sorties/1/start" being               *)
(* <<"api", "v1", "sorties", "1", "start">>, and a request is a method, a  *)
(* path and its X-API-Key header.                                          *)
(***************************************************************************)
settings_api_key == "change-me"

\* request.url.path.startswith("/api/")
StartsWithApi(path) == Len(path) >= 2 /\ path[1] = "api"

\* request.headers.get("X-API-Key"): the header's value, or None
NoHeader == [present |-> FALSE, value |-> ""]
Header(value) == [present |-> TRUE, value |-> value]

KeyMismatch_WrongOnly(api_key) == api_key.present /\ api_key.value # settings_api_key

\* api_key != settings.api_key
KeyMismatch(api_key) == ~api_key.present \/ api_key.value # settings_api_key

PathIds == [p \in {"1", "2"} |-> IF p = "1" THEN 1 ELSE 2]

\* app.include_router(sorties_router, prefix="/api/v1") and the decorators of
\* the handlers: the route of a request, "none" when no route matches.
RouteOf(method, path) ==
    IF Len(path) >= 4 /\ SubSeq(path, 1, 3) = <<"api", "v1", "sorties">>
                      /\ path[4] \in DOMAIN PathIds
    THEN IF Len(path) = 5 /\ path[5] = "start" /\ method = "PUT" THEN "start_sortie"
         ELSE IF Len(path) = 4 /\ method = "DELETE" THEN "delete_sortie"
         ELSE "none"
    ELSE IF Len(path) = 2 /\ path[1] = "static" /\ method = "GET" THEN "static"
    ELSE "none"

\* response = await call_next(request)
call_next(request) ==
    LET route == RouteOf(request.method, request.path)
    IN IF route = "start_sortie" THEN start_sortie(PathIds[request.path[4]])
       ELSE IF route = "delete_sortie" THEN delete_sortie(PathIds[request.path[4]])
       ELSE IF route = "static" THEN Answer("static", request.path, NULL, 200, sorties, aars)
       ELSE Answer("none", request.path, NULL, 404, sorties, aars)

\* APIKeyMiddleware.dispatch
dispatch(request) ==
    IF StartsWithApi(request.path) /\ KeyMismatch(request.api_key)
    THEN Answer("APIKeyMiddleware", request.path, NULL, 401, sorties, aars)
    ELSE call_next(request)

ApiKeys == {NoHeader, Header(settings_api_key), Header("wrong-key")}
Requests ==
    {[method |-> r[1], path |-> r[2], api_key |-> k] :
        r \in {<<"PUT", <<"api", "v1", "sorties", "1", "start">>>>,
               <<"PUT", <<"api", "v1", "sorties", "2", "start">>>>,
               <<"DELETE", <<"api", "v1", "sorties", "1">>>>,
               <<"GET", <<"api", "v1", "nowhere">>>>,
               <<"GET", <<"static", "app.css">>>>,
               <<"GET", <<"api">>>>},
        k \in ApiKeys}

NextAuth == \E request \in Requests : dispatch(request)

SpecAuth == InitSorties /\ [][NextAuth]_vars

StoreUnchanged ==
    UNCHANGED <<campaigns, missions, sorties, aars, checkins>>

\* C25: a request whose path starts with /api/ and whose X-API-Key header is
\* missing or differs from the configured key is answered 401 by the
\* middleware, no route handler runs and the store is unchanged; a request
\* with the configured key is answered by the handler of its route.
C25_ApiKey ==
    [][\A request \in Requests :
          (dispatch(request) /\ StartsWithApi(request.path)) =>
              IF request.api_key = Header(settings_api_key)
              THEN calls'[Len(calls')].fn = RouteOf(request.method, request.path)
              ELSE /\ calls'[Len(calls')].fn = "APIKeyMiddleware"
                   /\ calls'[Len(calls')].status = 401
                   /\ StoreUnchanged]_vars

C25_Witness ==
    /\ Len(calls) = 3
    /\ <<calls[1].fn, calls[1].status>> = <<"APIKeyMiddleware", 401>>
    /\ <<calls[2].fn, calls[2].status>> = <<"start_sortie", 200>>
    /\ <<calls[3].fn, calls[3].status>> = <<"APIKeyMiddleware", 401>>
    /\ sorties[1].status = "active"

(***************************************************************************)
(* services/notifications.py.  get_settings() builds the settings afresh   *)
(* on every call; webhook_type is any string (config.py).  The model       *)
(* records of each call the POSTs it issued and what it returned.          *)
(***************************************************************************)
MaxNotifications == 2

WebhookUrls == {"", "https://ntfy.sh/test"}
WebhookTypes == {"ntfy", "telegram", "generic", "slack"}
Messages == {"Hello", "fail"}

\* the httpx.post of each branch of the if/elif chain; none when no branch
\* is taken
Posts(message, webhook_url, webhook_type) ==
    IF webhook_type = "ntfy"
    THEN <<[url |-> webhook_url, format |-> "ntfy", content |-> message,
            title |-> "Senryaku"]>>
    ELSE IF webhook_type = "telegram"
    THEN <<[url |-> webhook_url, format |-> "telegram", text |-> message,
            parse_mode |-> "Markdown"]>>
    ELSE IF webhook_type = "generic"
    THEN <<[url |-> webhook_url, format |-> "generic", text |-> message,
            source |-> "senryaku"]>>
    ELSE <<>>

\* send_notification(message) under the given settings; post_raises says
\* whether httpx.post raises when it is called
send_notification(message, webhook_url, webhook_type, post_raises) ==
    LET attempted == IF webhook_url = "" THEN <<>>
                     ELSE Posts(message, webhook_url, webhook_type)
        raised == attempted # <<>> /\ post_raises
    IN /\ Len(calls) < MaxNotifications
       /\ calls' = Append(calls,
             [fn |-> "send_notification", arg |-> message,
              webhook_url |-> webhook_url, webhook_type |-> webhook_type,
              posts |-> attempted, raised |-> raised,
              result |-> IF webhook_url = "" THEN FALSE ELSE ~raised])
       /\ UNCHANGED <<campaigns, missions, sorties, aars, checkins, now, briefing, obs, urg,
                      inflight>>

InitNotify ==
    /\ NoTables
    /\ now = 0
    /\ checkins = {}
    /\ calls = <<>>
    /\ inflight = <<>>

NextNotify ==
    \E message \in Messages, webhook_url \in WebhookUrls, webhook_type \in WebhookTypes,
       post_raises \in BOOLEAN :
        send_notification(message, webhook_url, webhook_type, post_raises)

SpecNotify == InitNotify /\ [][NextNotify]_vars

\* C27: send_notification returns False when no webhook_url is configured
\* or when the POST raises, and returns True only when one POST to the
\* configured webhook_url was issued, in the ntfy, telegram or generic
\* format that webhook_type selects, and did not raise.
C27_SendNotification ==
    \A i \in 1..Len(calls) :
        LET c == calls[i]
        IN /\ (c.webhook_url = "" \/ c.raised) => ~c.result
           /\ c.result =>
                 /\ ~c.raised
                 /\ Len(c.posts) = 1
                 /\ c.posts[1].url = c.webhook_url
                 /\ c.posts[1].format = c.webhook_type
                 /\ c.posts[1].format \in {"ntfy", "telegram", "generic"}

(***************************************************************************)
(* routers/operations.py: GET /briefing/route on the snapshots of the      *)
(* briefing planner.                                                       *)
(***************************************************************************)
\* sorties = generate_briefing(session, energy_level, 1); the first of them,
\* or None
route_sortie(energy) ==
    LET routed == generate_briefing(energy, 1)
    IN IF routed # <<>> THEN routed[1] ELSE NULL

RouteSortie(energy) ==
    /\ ~briefing.called
    /\ briefing' = [called |-> TRUE, energy |-> energy, available_blocks |-> 1,
                    result |-> route_sortie(energy)]
    /\ UNCHANGED <<campaigns, missions, sorties, aars, checkins, now, obs, urg, calls, inflight>>

NextRoute == \E energy \in EnergyLevel : RouteSortie(energy)

SpecRoute == InitBriefing /\ [][NextRoute]_vars

\* C26: route_sortie returns the first candidate in the (-urgency,
\* sort_order) ordering of the queued, energy-admitted sorties of active
\* campaigns, and null only when there is no such candidate.
C26_RouteBest ==
    briefing.called =>
        LET candidates == SortedCandidates(briefing.energy)
        IN briefing.result = IF candidates = <<>> THEN NULL ELSE candidates[1]

====
